---- MODULE Spec2Model ----
(***************************************************************************)
(* Model of the concurrent MVCC linked list (ll_head_t / ll_domain_t).     *)
(* Every access to shared memory (list head, commit counter, a mutable     *)
(* node field, a hazard cell, an active_snapshot cell) is one step of the  *)
(* calling thread; thread-local computation, and the load of the immutable *)
(* user_elm next to a hazard store, is folded into the adjacent step.      *)
(*                                                                         *)
(* A read of a node that is not allocated (freed or wild) is undefined     *)
(* behaviour: it is counted in the history variable uaf and yields any     *)
(* value of the field's type (the stale value included). An execution is   *)
(* followed through at most MaxWild such accesses.                         *)
(*                                                                         *)
(* The clients are workloads: each registered thread makes a fixed         *)
(* sequence of API calls, and the threads interleave freely. The allocator *)
(* never hands out an address twice, and the k-th insert inserts element k.*)
(***************************************************************************)
EXTENDS Integers, Naturals, FiniteSets, Sequences, TLC

\* ---------------------------------------------------------------- bounds
NumThreads == 2
MaxNodes == 3
MaxTxn == 6
MaxPre == 3
MaxNexts == 4
MaxWild == 3
NumDomains == 2
Others == 2
InitCap == 1
MaxArrays == 6

\* ------------------------------------------------------- program constants
HP_SLOTS_PER_THREAD == 2
UINT64_MAX == 1000000

NULL == 0
Threads == 1..NumThreads
\* Thread-state objects (ll_thread_state_t): one per thread and domain it
\* registers with, and those of the threads that registered earlier and stay
\* idle. Arrays: the blocks calloc hands out for ll_domain.threads.
States == 1..(NumDomains * NumThreads + Others)
Domains == 1..NumDomains
Arrays == 1..MaxArrays
Nodes == 1..MaxNodes
NodeOrNull == 0..MaxNodes
Elems == 1..MaxNodes
TxnIds == 0..MaxTxn

VARIABLES
    head,             \* ll_head_t.head
    commit_id,        \* ll_head_t.commit_id
    st,               \* heap: "unused" | "live" | "freed" per node address
    user_elm,         \* versioned_node_t.user_elm
    insert_txn_id,    \* versioned_node_t.insert_txn_id
    removed_txn_id,   \* versioned_node_t.removed_txn_id
    next,             \* versioned_node_t.next
    hazard_ptrs,      \* ll_thread_state_t.hazard_ptrs[2]
    active_snapshot,  \* ll_thread_state_t.active_snapshot
    retired_list,     \* ll_thread_state_t.retired_list
    iter,             \* one ll_iterator_t per thread
    pc,               \* position of each thread inside its current call
    loc,              \* locals of the current call
    ret,              \* last completed call of each thread and its result
    prog,             \* calls each thread has still to make (its workload)
    uaf,              \* history: accesses to nodes that are not allocated
    nfree,            \* history: number of times each address was passed to free()
    ndtor,            \* history: number of destructor (free_cb) calls per element
    rm_stores,        \* history: number of stores to removed_txn_id per node
    rm_rets,          \* history: number of ll_remove calls that returned LL_OK or LL_ERR_NOTFOUND
    trav,             \* history: the traversal in progress (snapshot, nodes
                      \*   returned, no mutation since it left the head, nodes
                      \*   whose insert had returned when the snapshot was taken)
    rc_pre,           \* history: nodes that were eligible for reclamation when
                      \*   the thread called ll_reclaim in a quiescent domain
    tls_thread_state, \* _Thread_local tls_thread_state (NULL or a thread state)
    tls_domain,       \* _Thread_local tls_domain (NULL or a domain)
    threads,          \* ll_domain.threads: the array the domain points at
    thread_count,     \* ll_domain.thread_count
    capacity,         \* ll_domain.capacity
    resize_lock,      \* ll_domain.resize_lock
    arr_st,           \* heap: "unused" | "live" | "freed" per threads array
    arr_slot,         \* the thread-state pointers an array holds
    state_st,         \* heap: "unused" | "live" per thread state
    in_use            \* ll_thread_state_t.in_use

vars == <<head, commit_id, st, user_elm, insert_txn_id, removed_txn_id, next,
          hazard_ptrs, active_snapshot, retired_list, iter, pc, loc, ret, prog,
          uaf, nfree, ndtor, rm_stores, rm_rets, trav, rc_pre, tls_thread_state, tls_domain,
          threads, thread_count, capacity, resize_lock, arr_st, arr_slot, state_st,
          in_use>>

heapv == <<st, user_elm, insert_txn_id, removed_txn_id, next>>
listv == <<head, commit_id>>
domv == <<hazard_ptrs, active_snapshot, retired_list>>
histv == <<uaf, nfree, ndtor, rm_stores, rm_rets, trav, rc_pre>>
tlsv == <<tls_thread_state, tls_domain>>
regv == <<tlsv, threads, thread_count, capacity, resize_lock, arr_st, arr_slot,
          state_st, in_use>>

\* --------------------------------------------------------------- helpers
Min2(a, b) == IF a < b THEN a ELSE b

ZeroLoc == [elm |-> 0, txn |-> 0, curr |-> 0, prev |-> 0, nxt |-> 0, snap |-> 0,
            scan |-> 0, min |-> 0, idx |-> 0, held |-> 0, casf |-> FALSE,
            recl |-> FALSE, dom |-> 0, cap |-> 0, i |-> 0, arr |-> 0, narr |-> 0,
            state |-> 0, other |-> FALSE, nomem |-> FALSE]

NoIter == [list |-> FALSE, snapshot |-> 0, current_node |-> NULL]

NoTrav == [snap |-> 0, seen |-> {}, quiet |-> FALSE, base |-> {}]

NoRet == [op |-> "none", code |-> "none", val |-> 0]

Live(n) == n \in Nodes /\ st[n] = "live"

\* Values a load of a node field can yield.
RdNext(n) == IF Live(n) THEN {next[n]} ELSE NodeOrNull
RdRemoved(n) == IF Live(n) THEN {removed_txn_id[n]} ELSE TxnIds
RdInsert(n) == IF Live(n) THEN {insert_txn_id[n]} ELSE TxnIds
RdElm(n) == IF Live(n) THEN {user_elm[n]} ELSE Elems

\* Access to a field of node n by a thread: counts a use after free.
Touch(n) ==
    /\ Live(n) \/ uaf < MaxWild
    /\ uaf' = IF Live(n) THEN uaf ELSE uaf + 1

\* Variants of node_visible: insert comparison not strict; removal comparison
\* not strict; removal not looked at.
node_visible_insert_le(ins, rid, snapshot) ==
    ins <= snapshot /\ (rid = 0 \/ rid > snapshot)

node_visible_removed_ge(ins, rid, snapshot) ==
    ins < snapshot /\ (rid = 0 \/ rid >= snapshot)

node_visible_no_removed(ins, rid, snapshot) ==
    ins < snapshot

node_visible(ins, rid, snapshot) ==
    ins < snapshot /\ (rid = 0 \/ rid > snapshot)

\* Nodes reachable from list.head by next pointers, in order (cut at a cycle).
RECURSIVE ChainFrom(_, _)
ChainFrom(n, seen) ==
    IF n = NULL \/ n \in seen THEN <<>>
    ELSE <<n>> \o ChainFrom(next[n], seen \cup {n})

Chain == ChainFrom(head, {})
ChainSet == {Chain[i] : i \in 1..Len(Chain)}

\* ll_count and ll_is_empty on a list no other call is running on: the nodes
\* of the chain that are visible at snapshot = load(commit_id).
ll_count ==
    Cardinality({i \in 1..Len(Chain) :
        node_visible(insert_txn_id[Chain[i]], removed_txn_id[Chain[i]], commit_id)})

ll_is_empty ==
    \A i \in 1..Len(Chain) :
        ~node_visible(insert_txn_id[Chain[i]], removed_txn_id[Chain[i]], commit_id)

\* ll_contains(elm) on a list no other call is running on.
ll_contains(elm) ==
    \E i \in 1..Len(Chain) :
        /\ node_visible(insert_txn_id[Chain[i]], removed_txn_id[Chain[i]], commit_id)
        /\ user_elm[Chain[i]] = elm

\* Any mutation of the shared list disturbs the iterations in progress.
Disturb == [t \in Threads |-> [trav[t] EXCEPT !.quiet = FALSE]]

\* Completion of a call.
Return(t, op, code, val) ==
    /\ pc' = [pc EXCEPT ![t] = "idle"]
    /\ loc' = [loc EXCEPT ![t] = ZeroLoc]
    /\ ret' = [ret EXCEPT ![t] = [op |-> op, code |-> code, val |-> val]]

Goto(t, label) == pc' = [pc EXCEPT ![t] = label]

SetLoc(t, r) == loc' = [loc EXCEPT ![t] = r]

\* The domain the list is bound to (list->domain, set by ll_init).
ListDomain == 1

\* The thread states domain d scans: threads[0 .. thread_count - 1], non-null.
DomainStates(d) ==
    LET a == arr_slot[threads[d]]
    IN {a[i] : i \in 1..Min2(thread_count[d], Len(a))} \ {NULL}

\* The i-th smallest element of S for i <= |S|, then NULL: a threads array of
\* length n whose first slots hold the states S in the order they registered.
Slots(S, n) ==
    [i \in 1..n |->
        IF i <= Cardinality(S)
        THEN CHOOSE x \in S : Cardinality({y \in S : y < x}) = i - 1
        ELSE NULL]

\* The calls a workload is made of.
Ins == [k |-> "insert", a |-> 0]
InsNoMem == [k |-> "insert_nomem", a |-> 0]
Reg(d) == [k |-> "register", a |-> d]
Unreg(d) == [k |-> "unregister", a |-> d]
RegNoMem(d) == [k |-> "register_nomem", a |-> d]
Rm(e) == [k |-> "remove", a |-> e]
Rf == [k |-> "remove_first", a |-> 0]
Begin == [k |-> "begin", a |-> 0]
Nxt == [k |-> "next", a |-> 0]
End == [k |-> "end", a |-> 0]
Begin2 == [k |-> "begin2", a |-> 0]
End2 == [k |-> "end2", a |-> 0]
Rc == [k |-> "reclaim", a |-> 0]
RcOther == [k |-> "reclaim_other", a |-> 0]
First(s) == [k |-> "snap_first", a |-> s]
Next_(s) == [k |-> "snap_next", a |-> s]

\* Thread t makes the next call of its workload.
Call(t, op, label, r) ==
    /\ pc[t] = "idle"
    /\ prog[t] # <<>>
    /\ Head(prog[t]) = op
    /\ prog' = [prog EXCEPT ![t] = Tail(@)]
    /\ pc' = [pc EXCEPT ![t] = label]
    /\ loc' = [loc EXCEPT ![t] = r]

\* Thread t makes the next call of its workload, and the call returns at once.
CallReturn(t, op, name, code) ==
    /\ pc[t] = "idle"
    /\ prog[t] # <<>>
    /\ Head(prog[t]) = op
    /\ prog' = [prog EXCEPT ![t] = Tail(@)]
    /\ ret' = [ret EXCEPT ![t] = [op |-> name, code |-> code, val |-> 0]]
    /\ UNCHANGED <<pc, loc>>

\* Nodes whose ll_insert_head call has returned.
InsertsDone ==
    {n \in Nodes : st[n] # "unused"}
        \ {loc[t].curr : t \in {u \in Threads : pc[u] \in {"ins_load", "ins_cas"}}}

\* Nodes a reclaim has to free: logically removed, with no active snapshot in
\* the domain and no hazard cell equal to the node.
Eligible ==
    IF \E s \in DomainStates(ListDomain) : active_snapshot[s] # 0 THEN {}
    ELSE {n \in Nodes :
            /\ Live(n)
            /\ removed_txn_id[n] # 0
            /\ \A s \in DomainStates(ListDomain) :
                  \A k \in 0..(HP_SLOTS_PER_THREAD - 1) : hazard_ptrs[s][k] # n}

\* Every thread but t has made its last call and is back from it.
OthersDone(t) ==
    \A u \in Threads \ {t} : pc[u] = "idle" /\ prog[u] = <<>>

\* ------------------------------------------------------------- workloads
\* The client code: what each registered thread calls, in order. Thread 1
\* runs p and thread 2 runs q; further threads stay registered and idle.
Solo(p) == [t \in Threads |-> IF t = 1 THEN p ELSE <<>>]
Duo(p, q) == [t \in Threads |-> IF t = 1 THEN p ELSE IF t = 2 THEN q ELSE <<>>]

SeqsUpTo(S, n) == UNION {[1..k -> S] : k \in 0..n}
Repeat(op, n) == [i \in 1..n |-> op]

\* Calls that draw a transaction id / that allocate a node.
Commits(p) == Cardinality({i \in 1..Len(p) : p[i].k \in {"insert", "remove"}})
Inserts(p) == Cardinality({i \in 1..Len(p) : p[i].k = "insert"})

Mutators == {Ins, Rm(1), Rm(2), Rf, Rc}

\* One thread: mutations, then an iteration with a mutation after begin.
Sequential ==
    {Solo(pre \o <<Begin>> \o mid \o Repeat(Nxt, k) \o <<End>>) :
        pre \in SeqsUpTo(Mutators, MaxPre), mid \in SeqsUpTo(Mutators, 1),
        k \in {MaxNexts}}

\* The end-to-end scenarios of the test suite, one thread.
Scenarios ==
    { Solo(<<Begin, Ins, Nxt, End, Begin, Nxt, Nxt, End>>),
      Solo(<<Ins, Ins, Begin, Ins, Nxt, Nxt, Nxt, Nxt, End>>),
      Solo(<<Ins, Ins, Ins, First(2), Next_(2), Next_(2)>>),
      Solo(<<Ins, Ins, First(2), Next_(2), Next_(2), Rm(1),
             First(2), Next_(2), Next_(2), First(4), Next_(4)>>),
      Solo(<<Ins, Rm(1), Rm(1), Begin, Nxt, End>>),
      Solo(<<Ins, Begin, Nxt, Rf, Nxt, End>>),
      Solo(<<Ins, Rm(1), Rc, Rc>>),
      Solo(<<Ins, Ins, Ins, Rf, Rf, Rf, Rf>>),
      Solo(<<Ins, Ins, Rm(2), Rf, Rf, Ins, Rf, Rf>>),
      Solo(<<Nxt, End>>) }

\* Two threads: thread 1 builds and mutates the list while thread 2 races.
Drivers ==
    { <<Ins, Ins>>, <<Ins, Rf>>, <<Ins, Ins, Rf>>, <<Ins, Ins, Rf, Rf>>,
      <<Ins, Rm(1), Rc>>, <<Ins, Ins, Rm(1), Rc>>, <<Ins, Ins, Rm(2), Rc>> }

Racers ==
    { <<Ins>>, <<Rm(1)>>, <<Rf>>, <<Rc>>, <<Begin, Nxt, Nxt, End>>,
      <<First(2), Next_(2)>> }

Concurrent == {Duo(p, q) : p \in Drivers, q \in Racers}

\* Two threads that both reclaim: over two removed nodes; after one of them
\* held a hazard pointer on the removed node.
Reclaimers ==
    { Duo(<<Ins, Ins, Rm(1), Rm(2), Rc>>, <<Rc>>),
      Duo(<<Ins, Rm(1), Rc>>, <<Rm(1), Rc>>) }

\* The allocator fails in some of the ll_insert_head calls.
Starved ==
    { Solo(<<Ins, InsNoMem, Ins, Begin, Nxt, Nxt, Nxt, End>>),
      Solo(<<InsNoMem, Ins, Rm(1), InsNoMem, Rc>>),
      Duo(<<Ins, InsNoMem, Ins>>, <<InsNoMem, Ins, Rf>>) }

\* ll_reclaim on a second list of the domain, after calls on the list.
Sharers ==
    { Solo(<<Ins, Rm(1), RcOther, Rc>>),
      Duo(<<Ins, Ins, Rm(1), Rm(2), Rc>>, <<Rc, RcOther>>),
      Duo(<<Ins, Rm(1), Rc>>, <<Rm(1), Rc, RcOther>>) }

\* One thread with two iterators open at a time on the list.
Nested ==
    { Solo(<<Ins, Begin, Ins, Begin2, End2, Nxt, Nxt, End>>),
      Solo(<<Ins, Begin, Begin2, Nxt, End, End2>>) }

Workloads ==
    {w \in Sequential \cup Scenarios \cup Concurrent \cup Reclaimers \cup Starved
            \cup Sharers \cup Nested :
        /\ Commits(w[1]) + Commits(w[2]) < MaxTxn
        /\ Inserts(w[1]) + Inserts(w[2]) <= MaxNodes}

\* Thread 2 is not registered with any domain when it makes its calls.
Strangers ==
    { Duo(<<Ins, Ins, Rm(1)>>, <<Ins, Rm(1), Rf, Begin, Nxt, End, Rc>>),
      Duo(<<Ins, Rm(1)>>, <<Rc, Rf, Rm(1), Begin, Ins, Nxt, End>>) }

\* Thread 2 is registered with another domain than the list's.
Foreigners ==
    { Duo(<<Ins>>, <<Ins, Rm(1), Rf, Begin, Nxt, End>>),
      Duo(<<Ins>>, <<Begin, Rf, End, Rm(1), Ins>>) }

\* tls_domain of every thread when the workload starts.
AllIn(d) == [t \in Threads |-> d]

Setups ==
    {[prog |-> w, dom |-> AllIn(ListDomain)] : w \in Workloads}
    \cup {[prog |-> w, dom |-> [AllIn(ListDomain) EXCEPT ![2] = NULL]] : w \in Strangers}
    \cup {[prog |-> w, dom |-> [AllIn(ListDomain) EXCEPT ![2] = 2]] : w \in Foreigners}

\* The domains after ll_domain_create(NumThreads) and the registrations dom
\* stands for: thread t, where registered, is bound to thread state t.
Registry(dom) ==
    /\ tls_domain = dom
    /\ tls_thread_state = [t \in Threads |-> IF dom[t] = NULL THEN NULL ELSE t]
    /\ threads = [d \in Domains |-> d]
    /\ thread_count = [d \in Domains |-> Cardinality({t \in Threads : dom[t] = d})]
    /\ capacity = [d \in Domains |-> NumThreads]
    /\ resize_lock = [d \in Domains |-> FALSE]
    /\ arr_st = [a \in Arrays |-> IF a \in Domains THEN "live" ELSE "unused"]
    /\ arr_slot = [a \in Arrays |->
                     IF a \in Domains
                     THEN Slots({t \in Threads : dom[t] = a}, NumThreads) ELSE <<>>]
    /\ state_st = [s \in States |->
                     IF s \in Threads /\ dom[s] # NULL THEN "live" ELSE "unused"]
    /\ in_use = [s \in States |-> s \in Threads /\ dom[s] # NULL]

\* ------------------------------------------------------------------ Init
\* State after ll_domain_create, ll_thread_register by the threads the setup
\* registers, ll_init.
Start(setup) ==
    /\ prog = setup.prog
    /\ Registry(setup.dom)
    /\ head = NULL
    /\ commit_id = 1
    /\ st = [n \in Nodes |-> "unused"]
    /\ user_elm = [n \in Nodes |-> 0]
    /\ insert_txn_id = [n \in Nodes |-> 0]
    /\ removed_txn_id = [n \in Nodes |-> 0]
    /\ next = [n \in Nodes |-> NULL]
    /\ hazard_ptrs = [s \in States |-> [k \in 0..(HP_SLOTS_PER_THREAD - 1) |-> NULL]]
    /\ active_snapshot = [s \in States |-> 0]
    /\ retired_list = [s \in States |-> NULL]
    /\ iter = [i \in 1..(2 * NumThreads) |-> NoIter]
    /\ pc = [t \in Threads |-> "idle"]
    /\ loc = [t \in Threads |-> ZeroLoc]
    /\ ret = [t \in Threads |-> NoRet]
    /\ uaf = 0
    /\ nfree = [n \in Nodes |-> 0]
    /\ ndtor = [e \in Elems |-> 0]
    /\ rm_stores = [n \in Nodes |-> 0]
    /\ rm_rets = 0
    /\ trav = [t \in Threads |-> NoTrav]
    /\ rc_pre = [t \in Threads |-> {}]

Init == \E s \in Setups : Start(s)

\* -------------------------------------------------------- ll_insert_head
\* Entry checks pass (list, elm non-null; thread registered). The allocator
\* hands out an address it has not handed out before, and the caller inserts
\* an element it has not inserted before: the k-th node carries element k.
insert_call(t) ==
    /\ tls_thread_state[t] # NULL
    /\ Call(t, Ins, "ins_alloc", ZeroLoc)
    /\ Cardinality({n \in Nodes : st[n] = "unused"})
         > Cardinality({u \in Threads : pc[u] = "ins_alloc"})
    /\ UNCHANGED <<listv, heapv, domv, iter, ret, histv, regv>>

\* if (!tls_thread_state) return LL_ERR_NOTHREAD.
insert_nothread(t) ==
    /\ tls_thread_state[t] = NULL
    /\ \E op \in {Ins, InsNoMem} : CallReturn(t, op, "insert", "NOTHREAD")
    /\ UNCHANGED <<listv, heapv, domv, iter, histv, regv>>

\* Variant of insert_nomem: the transaction id is drawn before the allocation.
insert_nomem_bump(t) ==
    /\ tls_thread_state[t] # NULL
    /\ CallReturn(t, InsNoMem, "insert", "NOMEM")
    /\ commit_id' = commit_id + 1
    /\ UNCHANGED <<head, heapv, domv, iter, histv, regv>>

\* aligned_alloc returns NULL: return LL_ERR_NOMEM.
insert_nomem(t) ==
    /\ tls_thread_state[t] # NULL
    /\ CallReturn(t, InsNoMem, "insert", "NOMEM")
    /\ UNCHANGED <<listv, heapv, domv, iter, histv, regv>>

\* aligned_alloc; txn_id = fetch_add(commit_id, 1); initialise the node.
insert_alloc(t) ==
    /\ pc[t] = "ins_alloc"
    /\ LET w == CHOOSE n \in Nodes : st[n] = "unused" /\ \A m \in Nodes : st[m] = "unused" => n <= m
       IN /\ st' = [st EXCEPT ![w] = "live"]
          /\ user_elm' = [user_elm EXCEPT ![w] = w]
          /\ insert_txn_id' = [insert_txn_id EXCEPT ![w] = commit_id]
          /\ removed_txn_id' = [removed_txn_id EXCEPT ![w] = 0]
          /\ SetLoc(t, [loc[t] EXCEPT !.elm = w, !.curr = w, !.txn = commit_id])
    /\ commit_id' = commit_id + 1
    /\ Goto(t, "ins_load")
    /\ UNCHANGED <<head, next, domv, iter, ret, prog, histv, regv>>

\* Variant of insert_load: the new node does not point at the old head.
insert_load_null(t) ==
    /\ pc[t] = "ins_load"
    /\ next' = [next EXCEPT ![loc[t].curr] = NULL]
    /\ SetLoc(t, [loc[t] EXCEPT !.nxt = head])
    /\ Goto(t, "ins_cas")
    /\ UNCHANGED <<listv, st, user_elm, insert_txn_id, removed_txn_id, domv, iter,
                   ret, prog, histv, regv>>

\* old_head = load(head); w->next = old_head.
insert_load(t) ==
    /\ pc[t] = "ins_load"
    /\ next' = [next EXCEPT ![loc[t].curr] = head]
    /\ SetLoc(t, [loc[t] EXCEPT !.nxt = head])
    /\ Goto(t, "ins_cas")
    /\ UNCHANGED <<listv, st, user_elm, insert_txn_id, removed_txn_id, domv, iter,
                   ret, prog, histv, regv>>

\* Variant of insert_cas_ok: the node is published without comparing head.
insert_cas_blind(t) ==
    /\ pc[t] = "ins_cas"
    /\ head' = loc[t].curr
    /\ trav' = Disturb
    /\ Return(t, "insert", "OK", loc[t].elm)
    /\ UNCHANGED <<commit_id, heapv, domv, iter, prog, uaf, nfree, ndtor, rm_stores, rm_rets, rc_pre, regv>>

\* compare_exchange_weak(head, old_head, w): success publishes the node.
insert_cas_ok(t) ==
    /\ pc[t] = "ins_cas"
    /\ head = loc[t].nxt
    /\ head' = loc[t].curr
    /\ trav' = Disturb
    /\ Return(t, "insert", "OK", loc[t].elm)
    /\ UNCHANGED <<commit_id, heapv, domv, iter, prog, uaf, nfree, ndtor, rm_stores, rm_rets, rc_pre, regv>>

\* compare_exchange_weak fails (head changed, or spuriously): retry.
insert_cas_fail(t) ==
    /\ pc[t] = "ins_cas"
    /\ Goto(t, "ins_load")
    /\ UNCHANGED <<listv, heapv, domv, iter, loc, ret, prog, histv, regv>>

ll_insert_head(t) ==
    \/ insert_call(t)
    \/ insert_nothread(t)
    \/ insert_nomem(t)
    \/ insert_alloc(t)
    \/ insert_load(t)
    \/ insert_cas_ok(t)
    \/ insert_cas_fail(t)

\* -------------------------------------------------------------- ll_remove
remove_call(t, e) ==
    /\ tls_thread_state[t] # NULL
    /\ Call(t, Rm(e), "rm_txn", [ZeroLoc EXCEPT !.elm = e])
    /\ UNCHANGED <<listv, heapv, domv, iter, ret, histv, regv>>

\* Variant of remove_nothread: the transaction id is drawn before the check.
remove_nothread_bump(t, e) ==
    /\ tls_thread_state[t] = NULL
    /\ CallReturn(t, Rm(e), "remove", "NOTHREAD")
    /\ commit_id' = commit_id + 1
    /\ UNCHANGED <<head, heapv, domv, iter, histv, regv>>

\* if (!tls_thread_state) return LL_ERR_NOTHREAD.
remove_nothread(t, e) ==
    /\ tls_thread_state[t] = NULL
    /\ CallReturn(t, Rm(e), "remove", "NOTHREAD")
    /\ UNCHANGED <<listv, heapv, domv, iter, histv, regv>>

\* Variant of remove_txn: the counter is read and not incremented.
remove_txn_no_bump(t) ==
    /\ pc[t] = "rm_txn"
    /\ SetLoc(t, [loc[t] EXCEPT !.txn = commit_id])
    /\ Goto(t, "rm_head")
    /\ UNCHANGED <<listv, heapv, domv, iter, ret, prog, histv, regv>>

\* txn_id = fetch_add(commit_id, 1).
remove_txn(t) ==
    /\ pc[t] = "rm_txn"
    /\ commit_id' = commit_id + 1
    /\ SetLoc(t, [loc[t] EXCEPT !.txn = commit_id])
    /\ Goto(t, "rm_head")
    /\ UNCHANGED <<head, heapv, domv, iter, ret, prog, histv, regv>>

\* curr = load(head); while (curr) ...; return LL_ERR_NOTFOUND.
remove_head(t) ==
    /\ pc[t] = "rm_head"
    /\ IF head = NULL
       THEN /\ Return(t, "remove", "NOTFOUND", loc[t].elm)
            /\ rm_rets' = rm_rets + 1
       ELSE /\ SetLoc(t, [loc[t] EXCEPT !.curr = head])
            /\ Goto(t, "rm_hp")
            /\ UNCHANGED <<ret, rm_rets>>
    /\ UNCHANGED <<listv, heapv, domv, iter, prog, uaf, nfree, ndtor, rm_stores, trav, rc_pre, regv>>

\* hp_acquire(state, 0, curr).
remove_hp(t) ==
    /\ pc[t] = "rm_hp"
    /\ hazard_ptrs' = [hazard_ptrs EXCEPT ![t][0] = loc[t].curr]
    /\ Goto(t, "rm_check")
    /\ UNCHANGED <<listv, heapv, active_snapshot, retired_list, iter, loc, ret, prog,
                   histv, regv>>

\* Where the validation scan goes after it has loaded pointer v.
remove_scan_to(t, v) ==
    /\ SetLoc(t, [loc[t] EXCEPT !.scan = IF v = loc[t].curr THEN NULL ELSE v])
    /\ Goto(t, IF v = NULL THEN "rm_restart"
               ELSE IF v = loc[t].curr THEN "rm_cmp" ELSE "rm_scan")

\* check = load(head); scan = check.
remove_check(t) ==
    /\ pc[t] = "rm_check"
    /\ remove_scan_to(t, head)
    /\ UNCHANGED <<listv, heapv, domv, iter, ret, prog, histv, regv>>

\* scan = load(scan->next).
remove_scan(t) ==
    /\ pc[t] = "rm_scan"
    /\ \E v \in RdNext(loc[t].scan) : remove_scan_to(t, v)
    /\ Touch(loc[t].scan)
    /\ UNCHANGED <<listv, heapv, domv, iter, ret, prog, nfree, ndtor, rm_stores, rm_rets, rc_pre,
                   trav, regv>>

\* !found_curr: hp_release(state, 0); the reload of head is remove_head.
remove_restart(t) ==
    /\ pc[t] = "rm_restart"
    /\ hazard_ptrs' = [hazard_ptrs EXCEPT ![t][0] = NULL]
    /\ SetLoc(t, [loc[t] EXCEPT !.curr = NULL, !.scan = NULL])
    /\ Goto(t, "rm_head")
    /\ UNCHANGED <<listv, heapv, active_snapshot, retired_list, iter, ret, prog, histv, regv>>

\* curr->user_elm == elm: store(curr->removed_txn_id, txn_id).
remove_cmp_match(t) ==
    /\ pc[t] = "rm_cmp"
    /\ loc[t].elm \in RdElm(loc[t].curr)
    /\ removed_txn_id' = [removed_txn_id EXCEPT ![loc[t].curr] = loc[t].txn]
    /\ rm_stores' = [rm_stores EXCEPT ![loc[t].curr] = Min2(@ + 1, 2)]
    /\ Touch(loc[t].curr)
    /\ trav' = Disturb
    /\ Goto(t, "rm_rel_ok")
    /\ UNCHANGED <<listv, st, user_elm, insert_txn_id, next, domv, iter, loc, ret, prog,
                   nfree, ndtor, rm_rets, rc_pre, regv>>

\* curr->user_elm != elm: next = load(curr->next).
remove_cmp_other(t) ==
    /\ pc[t] = "rm_cmp"
    /\ \E e \in RdElm(loc[t].curr) : e # loc[t].elm
    /\ \E v \in RdNext(loc[t].curr) : SetLoc(t, [loc[t] EXCEPT !.nxt = v])
    /\ Touch(loc[t].curr)
    /\ Goto(t, "rm_rel_next")
    /\ UNCHANGED <<listv, heapv, domv, iter, ret, prog, nfree, ndtor, rm_stores, rm_rets, rc_pre,
                   trav, regv>>

\* hp_release(state, 0); return LL_OK.
remove_rel_ok(t) ==
    /\ pc[t] = "rm_rel_ok"
    /\ hazard_ptrs' = [hazard_ptrs EXCEPT ![t][0] = NULL]
    /\ Return(t, "remove", "OK", loc[t].elm)
    /\ rm_rets' = rm_rets + 1
    /\ UNCHANGED <<listv, heapv, active_snapshot, retired_list, iter, prog, uaf, nfree, ndtor, rm_stores, trav, rc_pre,
                   regv>>

\* hp_release(state, 0); curr = next; loop test.
remove_rel_next(t) ==
    /\ pc[t] = "rm_rel_next"
    /\ hazard_ptrs' = [hazard_ptrs EXCEPT ![t][0] = NULL]
    /\ IF loc[t].nxt = NULL
       THEN /\ Return(t, "remove", "NOTFOUND", loc[t].elm)
            /\ rm_rets' = rm_rets + 1
       ELSE /\ SetLoc(t, [loc[t] EXCEPT !.curr = loc[t].nxt, !.nxt = NULL])
            /\ Goto(t, "rm_hp")
            /\ UNCHANGED <<ret, rm_rets>>
    /\ UNCHANGED <<listv, heapv, active_snapshot, retired_list, iter, prog, uaf, nfree, ndtor, rm_stores, trav, rc_pre,
                   regv>>

ll_remove(t) ==
    \/ \E e \in Elems : remove_call(t, e)
    \/ \E e \in Elems : remove_nothread(t, e)
    \/ remove_txn(t)
    \/ remove_head(t)
    \/ remove_hp(t)
    \/ remove_check(t)
    \/ remove_scan(t)
    \/ remove_restart(t)
    \/ remove_cmp_match(t)
    \/ remove_cmp_other(t)
    \/ remove_rel_ok(t)
    \/ remove_rel_next(t)

\* -------------------------------------------------------- ll_remove_first
\* free(n): the address goes back to the allocator. A free of an address that
\* was allocated before is counted again; a free of a wild pointer is not counted.
free(n) ==
    /\ st' = IF Live(n) THEN [st EXCEPT ![n] = "freed"] ELSE st
    /\ nfree' = IF n \in Nodes /\ st[n] # "unused"
                THEN [nfree EXCEPT ![n] = Min2(@ + 1, 2)] ELSE nfree
    /\ trav' = Disturb

\* snapshot = load(commit_id).
remove_first_call(t) ==
    /\ tls_thread_state[t] # NULL
    /\ Call(t, Rf, "rf_snap", ZeroLoc)
    /\ UNCHANGED <<listv, heapv, domv, iter, ret, histv, regv>>

\* if (!tls_thread_state) return LL_ERR_NOTHREAD.
remove_first_nothread(t) ==
    /\ tls_thread_state[t] = NULL
    /\ CallReturn(t, Rf, "remove_first", "NOTHREAD")
    /\ UNCHANGED <<listv, heapv, domv, iter, histv, regv>>

\* Variant of remove_first_snap: the snapshot is drawn with a fetch_add.
remove_first_snap_bump(t) ==
    /\ pc[t] = "rf_snap"
    /\ commit_id' = commit_id + 1
    /\ SetLoc(t, [loc[t] EXCEPT !.snap = commit_id])
    /\ Goto(t, "rf_head")
    /\ UNCHANGED <<head, heapv, domv, iter, ret, prog, histv, regv>>

\* snapshot = load(commit_id).
remove_first_snap(t) ==
    /\ pc[t] = "rf_snap"
    /\ SetLoc(t, [loc[t] EXCEPT !.snap = commit_id])
    /\ Goto(t, "rf_head")
    /\ UNCHANGED <<listv, heapv, domv, iter, ret, prog, histv, regv>>

\* head_val = load(head); if (!w) return LL_ERR_NOTFOUND.
remove_first_head(t) ==
    /\ pc[t] = "rf_head"
    /\ IF head = NULL
       THEN Return(t, "remove_first", "NOTFOUND", 0)
       ELSE /\ SetLoc(t, [loc[t] EXCEPT !.curr = head, !.prev = NULL, !.nxt = NULL,
                                        !.casf = FALSE])
            /\ Goto(t, "rf_hp0")
            /\ UNCHANGED ret
    /\ UNCHANGED <<listv, heapv, domv, iter, prog, histv, regv>>

\* hp_acquire(state, 0, w).
remove_first_hp0(t) ==
    /\ pc[t] = "rf_hp0"
    /\ hazard_ptrs' = [hazard_ptrs EXCEPT ![t][0] = loc[t].curr]
    /\ Goto(t, "rf_verify")
    /\ UNCHANGED <<listv, heapv, active_snapshot, retired_list, iter, loc, ret, prog,
                   histv, regv>>

\* Verify head hasn't changed.
remove_first_verify(t) ==
    /\ pc[t] = "rf_verify"
    /\ Goto(t, IF head = loc[t].curr THEN "rf_vis" ELSE "rf_rel_retry")
    /\ UNCHANGED <<listv, heapv, domv, iter, loc, ret, prog, histv, regv>>

\* hp_release(state, 0); continue.
remove_first_rel_retry(t) ==
    /\ pc[t] = "rf_rel_retry"
    /\ hazard_ptrs' = [hazard_ptrs EXCEPT ![t][0] = NULL]
    /\ Goto(t, "rf_head")
    /\ UNCHANGED <<listv, heapv, active_snapshot, retired_list, iter, loc, ret, prog,
                   histv, regv>>

\* Variant of remove_first_vis: the head node is taken without node_visible.
remove_first_vis_any(t) ==
    /\ pc[t] = "rf_vis"
    /\ Goto(t, "rf_ldnext")
    /\ Touch(loc[t].curr)
    /\ UNCHANGED <<listv, heapv, domv, iter, loc, ret, prog, nfree, ndtor, rm_stores, rm_rets, rc_pre,
                   trav, regv>>

\* node_visible(w, snapshot) on the head node.
remove_first_vis(t) ==
    /\ pc[t] = "rf_vis"
    /\ \E ins \in RdInsert(loc[t].curr), rid \in RdRemoved(loc[t].curr) :
          Goto(t, IF node_visible(ins, rid, loc[t].snap) THEN "rf_ldnext" ELSE "rf_walk")
    /\ Touch(loc[t].curr)
    /\ UNCHANGED <<listv, heapv, domv, iter, loc, ret, prog, nfree, ndtor, rm_stores, rm_rets, rc_pre,
                   trav, regv>>

\* next_val = load(w->next).
remove_first_ldnext(t) ==
    /\ pc[t] = "rf_ldnext"
    /\ \E v \in RdNext(loc[t].curr) : SetLoc(t, [loc[t] EXCEPT !.nxt = v])
    /\ Touch(loc[t].curr)
    /\ Goto(t, "rf_cas_head")
    /\ UNCHANGED <<listv, heapv, domv, iter, ret, prog, nfree, ndtor, rm_stores, rm_rets, rc_pre,
                   trav, regv>>

\* compare_exchange_weak(head, head_val, next_val) succeeds.
remove_first_cas_head_ok(t) ==
    /\ pc[t] = "rf_cas_head"
    /\ head = loc[t].curr
    /\ head' = loc[t].nxt
    /\ trav' = Disturb
    /\ Goto(t, "rf_out")
    /\ UNCHANGED <<commit_id, heapv, domv, iter, loc, ret, prog, uaf, nfree, ndtor,
                   rm_stores, rm_rets, rc_pre, regv>>

\* compare_exchange_weak fails (head changed, or spuriously).
remove_first_cas_head_fail(t) ==
    /\ pc[t] = "rf_cas_head"
    /\ Goto(t, "rf_rel_retry")
    /\ UNCHANGED <<listv, heapv, domv, iter, loc, ret, prog, histv, regv>>

\* *out_elm = w->user_elm; hp_release(state, 0).
remove_first_out(t) ==
    /\ pc[t] = "rf_out"
    /\ \E e \in RdElm(loc[t].curr) : SetLoc(t, [loc[t] EXCEPT !.elm = e])
    /\ Touch(loc[t].curr)
    /\ hazard_ptrs' = [hazard_ptrs EXCEPT ![t][0] = NULL]
    /\ Goto(t, "rf_free")
    /\ UNCHANGED <<listv, heapv, active_snapshot, retired_list, iter, ret, prog, nfree,
                   ndtor, rm_stores, rm_rets, rc_pre, trav, regv>>

\* free(w) / free(curr); return LL_OK.
remove_first_free(t) ==
    /\ pc[t] = "rf_free"
    /\ free(loc[t].curr)
    /\ Return(t, "remove_first", "OK", loc[t].elm)
    /\ UNCHANGED <<listv, user_elm, insert_txn_id, removed_txn_id, next, domv, iter,
                   prog, uaf, ndtor, rm_stores, rm_rets, rc_pre, regv>>

\* Loop test of the inner walk: while (curr).
remove_first_walk_to(t, p, c) ==
    /\ SetLoc(t, [loc[t] EXCEPT !.prev = p, !.curr = c])
    /\ Goto(t, IF c = NULL THEN "rf_relall" ELSE "rf_hp1")

\* Head not visible: prev = w; curr = load(w->next).
remove_first_walk(t) ==
    /\ pc[t] = "rf_walk"
    /\ \E v \in RdNext(loc[t].curr) : remove_first_walk_to(t, loc[t].curr, v)
    /\ Touch(loc[t].curr)
    /\ UNCHANGED <<listv, heapv, domv, iter, ret, prog, nfree, ndtor, rm_stores, rm_rets, rc_pre,
                   trav, regv>>

\* hp_acquire(state, 1, curr).
remove_first_hp1(t) ==
    /\ pc[t] = "rf_hp1"
    /\ hazard_ptrs' = [hazard_ptrs EXCEPT ![t][1] = loc[t].curr]
    /\ Goto(t, "rf_vis2")
    /\ UNCHANGED <<listv, heapv, active_snapshot, retired_list, iter, loc, ret, prog,
                   histv, regv>>

\* node_visible(curr, snapshot) inside the walk.
remove_first_vis2(t) ==
    /\ pc[t] = "rf_vis2"
    /\ \E ins \in RdInsert(loc[t].curr), rid \in RdRemoved(loc[t].curr) :
          Goto(t, IF node_visible(ins, rid, loc[t].snap) THEN "rf_ldnext2" ELSE "rf_adv")
    /\ Touch(loc[t].curr)
    /\ UNCHANGED <<listv, heapv, domv, iter, loc, ret, prog, nfree, ndtor, rm_stores, rm_rets, rc_pre,
                   trav, regv>>

\* prev = curr; curr = load(curr->next).
remove_first_adv(t) ==
    /\ pc[t] = "rf_adv"
    /\ \E v \in RdNext(loc[t].curr) : remove_first_walk_to(t, loc[t].curr, v)
    /\ Touch(loc[t].curr)
    /\ UNCHANGED <<listv, heapv, domv, iter, ret, prog, nfree, ndtor, rm_stores, rm_rets, rc_pre,
                   trav, regv>>

\* next_val = load(curr->next); prev_next = curr.
remove_first_ldnext2(t) ==
    /\ pc[t] = "rf_ldnext2"
    /\ \E v \in RdNext(loc[t].curr) : SetLoc(t, [loc[t] EXCEPT !.nxt = v])
    /\ Touch(loc[t].curr)
    /\ Goto(t, "rf_cas_prev")
    /\ UNCHANGED <<listv, heapv, domv, iter, ret, prog, nfree, ndtor, rm_stores, rm_rets, rc_pre,
                   trav, regv>>

\* compare_exchange_weak(prev->next, curr, next_val) succeeds.
remove_first_cas_prev_ok(t) ==
    /\ pc[t] = "rf_cas_prev"
    /\ loc[t].curr \in RdNext(loc[t].prev)
    /\ next' = [next EXCEPT ![loc[t].prev] = loc[t].nxt]
    /\ Touch(loc[t].prev)
    /\ trav' = Disturb
    /\ Goto(t, "rf_out2")
    /\ UNCHANGED <<listv, st, user_elm, insert_txn_id, removed_txn_id, domv, iter, loc,
                   ret, prog, nfree, ndtor, rm_stores, rm_rets, rc_pre, regv>>

\* compare_exchange_weak fails: cas_failed = true; break.
remove_first_cas_prev_fail(t) ==
    /\ pc[t] = "rf_cas_prev"
    /\ SetLoc(t, [loc[t] EXCEPT !.casf = TRUE])
    /\ Touch(loc[t].prev)
    /\ Goto(t, "rf_relall")
    /\ UNCHANGED <<listv, heapv, domv, iter, ret, prog, nfree, ndtor, rm_stores, rm_rets, rc_pre,
                   trav, regv>>

\* *out_elm = curr->user_elm; hp_release_all: slot 0.
remove_first_out2(t) ==
    /\ pc[t] = "rf_out2"
    /\ \E e \in RdElm(loc[t].curr) : SetLoc(t, [loc[t] EXCEPT !.elm = e])
    /\ Touch(loc[t].curr)
    /\ hazard_ptrs' = [hazard_ptrs EXCEPT ![t][0] = NULL]
    /\ Goto(t, "rf_out2_rel1")
    /\ UNCHANGED <<listv, heapv, active_snapshot, retired_list, iter, ret, prog, nfree,
                   ndtor, rm_stores, rm_rets, rc_pre, trav, regv>>

\* hp_release_all: slot 1.
remove_first_out2_rel1(t) ==
    /\ pc[t] = "rf_out2_rel1"
    /\ hazard_ptrs' = [hazard_ptrs EXCEPT ![t][1] = NULL]
    /\ Goto(t, "rf_free")
    /\ UNCHANGED <<listv, heapv, active_snapshot, retired_list, iter, loc, ret, prog,
                   histv, regv>>

\* After the walk: hp_release_all, slot 0.
remove_first_relall(t) ==
    /\ pc[t] = "rf_relall"
    /\ hazard_ptrs' = [hazard_ptrs EXCEPT ![t][0] = NULL]
    /\ Goto(t, "rf_relall1")
    /\ UNCHANGED <<listv, heapv, active_snapshot, retired_list, iter, loc, ret, prog,
                   histv, regv>>

\* hp_release_all, slot 1; if (cas_failed) continue; return LL_ERR_NOTFOUND.
remove_first_relall1(t) ==
    /\ pc[t] = "rf_relall1"
    /\ hazard_ptrs' = [hazard_ptrs EXCEPT ![t][1] = NULL]
    /\ IF loc[t].casf
       THEN /\ Goto(t, "rf_head")
            /\ UNCHANGED <<loc, ret>>
       ELSE Return(t, "remove_first", "NOTFOUND", 0)
    /\ UNCHANGED <<listv, heapv, active_snapshot, retired_list, iter, prog, histv, regv>>

ll_remove_first(t) ==
    \/ remove_first_call(t)
    \/ remove_first_nothread(t)
    \/ remove_first_snap(t)
    \/ remove_first_head(t)
    \/ remove_first_hp0(t)
    \/ remove_first_verify(t)
    \/ remove_first_rel_retry(t)
    \/ remove_first_vis(t)
    \/ remove_first_ldnext(t)
    \/ remove_first_cas_head_ok(t)
    \/ remove_first_cas_head_fail(t)
    \/ remove_first_out(t)
    \/ remove_first_free(t)
    \/ remove_first_walk(t)
    \/ remove_first_hp1(t)
    \/ remove_first_vis2(t)
    \/ remove_first_adv(t)
    \/ remove_first_ldnext2(t)
    \/ remove_first_cas_prev_ok(t)
    \/ remove_first_cas_prev_fail(t)
    \/ remove_first_out2(t)
    \/ remove_first_out2_rel1(t)
    \/ remove_first_relall(t)
    \/ remove_first_relall1(t)

\* ------------------------------------------------------------ ll_iterator
\* ll_iterator_begin: iter->snapshot = load(commit_id); current_node = NULL.
iterator_begin_call(t) ==
    /\ tls_thread_state[t] # NULL
    /\ Call(t, Begin, "ib_load", ZeroLoc)
    /\ UNCHANGED <<listv, heapv, domv, iter, ret, histv, regv>>

\* if (!tls_thread_state) return LL_ERR_NOTHREAD: the iterator is not written.
iterator_begin_nothread(t) ==
    /\ tls_thread_state[t] = NULL
    /\ CallReturn(t, Begin, "begin", "NOTHREAD")
    /\ UNCHANGED <<listv, heapv, domv, iter, histv, regv>>

iterator_begin_load(t) ==
    /\ pc[t] = "ib_load"
    /\ iter' = [iter EXCEPT ![t] = [list |-> TRUE, snapshot |-> commit_id,
                                    current_node |-> NULL]]
    /\ trav' = [trav EXCEPT ![t] = [NoTrav EXCEPT !.base = InsertsDone]]
    /\ Goto(t, "ib_store")
    /\ UNCHANGED <<listv, heapv, domv, loc, ret, prog, uaf, nfree, ndtor, rm_stores, rm_rets, rc_pre, regv>>

\* Register active snapshot: store(active_snapshot, iter->snapshot); return LL_OK.
iterator_begin_store(t) ==
    /\ pc[t] = "ib_store"
    /\ active_snapshot' = [active_snapshot EXCEPT ![t] = iter[t].snapshot]
    /\ Return(t, "begin", "OK", iter[t].snapshot)
    /\ UNCHANGED <<listv, heapv, hazard_ptrs, retired_list, iter, prog, histv, regv>>

\* ll_iterator_next returns NULL at once when iter->list or tls_thread_state
\* is NULL.
iterator_next_nolist(t) ==
    /\ ~(iter[t].list /\ tls_thread_state[t] # NULL)
    /\ Call(t, Nxt, "idle", ZeroLoc)
    /\ ret' = [ret EXCEPT ![t] = [op |-> "next", code |-> "NULL", val |-> 0]]
    /\ UNCHANGED <<listv, heapv, domv, iter, histv, regv>>

iterator_next_call(t) ==
    /\ iter[t].list
    /\ tls_thread_state[t] # NULL
    /\ Call(t, Nxt, "in_start", ZeroLoc)
    /\ UNCHANGED <<listv, heapv, domv, iter, ret, histv, regv>>

\* Loop test of the search: while (curr); at the end current_node = NULL.
iterator_next_to(t, c) ==
    IF c = NULL
    THEN /\ iter' = [iter EXCEPT ![t].current_node = NULL]
         /\ Return(t, "next", "NULL", 0)
    ELSE /\ SetLoc(t, [loc[t] EXCEPT !.curr = c, !.nxt = NULL])
         /\ Goto(t, "in_hp")
         /\ UNCHANGED <<iter, ret>>

\* First call: curr = load(list->head).
iterator_next_first(t) ==
    /\ pc[t] = "in_start"
    /\ iter[t].current_node = NULL
    /\ iterator_next_to(t, head)
    /\ trav' = [trav EXCEPT ![t] = [snap |-> iter[t].snapshot, seen |-> {},
                                    quiet |-> TRUE, base |-> trav[t].base]]
    /\ UNCHANGED <<listv, heapv, domv, prog, uaf, nfree, ndtor, rm_stores, rm_rets, rc_pre, regv>>

\* Later calls: curr = load(current_node->next).
iterator_next_resume(t) ==
    /\ pc[t] = "in_start"
    /\ iter[t].current_node # NULL
    /\ \E v \in RdNext(iter[t].current_node) : iterator_next_to(t, v)
    /\ Touch(iter[t].current_node)
    /\ UNCHANGED <<listv, heapv, domv, prog, nfree, ndtor, rm_stores, rm_rets, rc_pre, trav, regv>>

\* hp_acquire(state, 0, curr).
iterator_next_hp(t) ==
    /\ pc[t] = "in_hp"
    /\ hazard_ptrs' = [hazard_ptrs EXCEPT ![t][0] = loc[t].curr]
    /\ Goto(t, "in_vis")
    /\ UNCHANGED <<listv, heapv, active_snapshot, retired_list, iter, loc, ret, prog,
                   histv, regv>>

\* node_visible(curr, iter->snapshot): iter->current_node = curr.
iterator_next_vis(t) ==
    /\ pc[t] = "in_vis"
    /\ \E ins \in RdInsert(loc[t].curr), rid \in RdRemoved(loc[t].curr) :
          IF node_visible(ins, rid, iter[t].snapshot)
          THEN /\ iter' = [iter EXCEPT ![t].current_node = loc[t].curr]
               /\ Goto(t, "in_rel_ret")
          ELSE /\ Goto(t, "in_ldnext")
               /\ UNCHANGED iter
    /\ Touch(loc[t].curr)
    /\ UNCHANGED <<listv, heapv, domv, loc, ret, prog, nfree, ndtor, rm_stores, rm_rets, rc_pre, trav, regv>>

\* Variant of iterator_next_rel_ret: the hazard pointer is not released.
iterator_next_rel_ret_keep(t) ==
    /\ pc[t] = "in_rel_ret"
    /\ Goto(t, "in_ret")
    /\ UNCHANGED <<listv, heapv, domv, iter, loc, ret, prog, histv, regv>>

\* hp_release(state, 0) before the return.
iterator_next_rel_ret(t) ==
    /\ pc[t] = "in_rel_ret"
    /\ hazard_ptrs' = [hazard_ptrs EXCEPT ![t][0] = NULL]
    /\ Goto(t, "in_ret")
    /\ UNCHANGED <<listv, heapv, active_snapshot, retired_list, iter, loc, ret, prog,
                   histv, regv>>

\* return curr->user_elm.
iterator_next_ret(t) ==
    /\ pc[t] = "in_ret"
    /\ \E e \in RdElm(loc[t].curr) : Return(t, "next", "ELM", e)
    /\ Touch(loc[t].curr)
    /\ trav' = [trav EXCEPT ![t].seen = @ \cup {loc[t].curr}]
    /\ UNCHANGED <<listv, heapv, domv, iter, prog, nfree, ndtor, rm_stores, rm_rets, rc_pre, regv>>

\* next = load(curr->next).
iterator_next_ldnext(t) ==
    /\ pc[t] = "in_ldnext"
    /\ \E v \in RdNext(loc[t].curr) : SetLoc(t, [loc[t] EXCEPT !.nxt = v])
    /\ Touch(loc[t].curr)
    /\ Goto(t, "in_rel_adv")
    /\ UNCHANGED <<listv, heapv, domv, iter, ret, prog, nfree, ndtor, rm_stores, rm_rets, rc_pre, trav, regv>>

\* hp_release(state, 0); curr = next.
iterator_next_rel_adv(t) ==
    /\ pc[t] = "in_rel_adv"
    /\ hazard_ptrs' = [hazard_ptrs EXCEPT ![t][0] = NULL]
    /\ iterator_next_to(t, loc[t].nxt)
    /\ UNCHANGED <<listv, heapv, active_snapshot, retired_list, prog, histv, regv>>

\* The second ll_iterator_t object of thread t (the first one is iter[t]).
Second(t) == NumThreads + t

\* ll_iterator_begin on the thread's second iterator.
iterator2_begin_call(t) ==
    /\ tls_thread_state[t] # NULL
    /\ Call(t, Begin2, "ib2_load", ZeroLoc)
    /\ UNCHANGED <<listv, heapv, domv, iter, ret, histv, regv>>

iterator2_begin_load(t) ==
    /\ pc[t] = "ib2_load"
    /\ iter' = [iter EXCEPT ![Second(t)] = [list |-> TRUE, snapshot |-> commit_id,
                                            current_node |-> NULL]]
    /\ Goto(t, "ib2_store")
    /\ UNCHANGED <<listv, heapv, domv, loc, ret, prog, histv, regv>>

iterator2_begin_store(t) ==
    /\ pc[t] = "ib2_store"
    /\ active_snapshot' = [active_snapshot EXCEPT ![t] = iter[Second(t)].snapshot]
    /\ Return(t, "begin2", "OK", iter[Second(t)].snapshot)
    /\ UNCHANGED <<listv, heapv, hazard_ptrs, retired_list, iter, prog, histv, regv>>

\* ll_iterator_end on the thread's second iterator.
iterator2_end(t) ==
    /\ tls_thread_state[t] # NULL
    /\ Call(t, End2, "idle", ZeroLoc)
    /\ active_snapshot' = [active_snapshot EXCEPT ![t] = 0]
    /\ iter' = [iter EXCEPT ![Second(t)] = NoIter]
    /\ ret' = [ret EXCEPT ![t] = [op |-> "end2", code |-> "OK", val |-> 0]]
    /\ UNCHANGED <<listv, heapv, hazard_ptrs, retired_list, histv, regv>>

\* Variant of iterator_end: the snapshot of an iterator that is still open
\* stays published.
iterator_end_keep(t) ==
    /\ tls_thread_state[t] # NULL
    /\ Call(t, End, "idle", ZeroLoc)
    /\ active_snapshot' = [active_snapshot EXCEPT ![t] = iter[Second(t)].snapshot]
    /\ iter' = [iter EXCEPT ![t] = NoIter]
    /\ ret' = [ret EXCEPT ![t] = [op |-> "end", code |-> "OK", val |-> 0]]
    /\ UNCHANGED <<listv, heapv, hazard_ptrs, retired_list, histv, regv>>

\* ll_iterator_end without tls_thread_state: only the iterator is cleared.
iterator_end_nothread(t) ==
    /\ tls_thread_state[t] = NULL
    /\ CallReturn(t, End, "end", "OK")
    /\ iter' = [iter EXCEPT ![t] = NoIter]
    /\ UNCHANGED <<listv, heapv, domv, histv, regv>>

\* ll_iterator_end: store(active_snapshot, 0); clear the iterator.
iterator_end(t) ==
    /\ tls_thread_state[t] # NULL
    /\ Call(t, End, "idle", ZeroLoc)
    /\ active_snapshot' = [active_snapshot EXCEPT ![t] = 0]
    /\ iter' = [iter EXCEPT ![t] = NoIter]
    /\ ret' = [ret EXCEPT ![t] = [op |-> "end", code |-> "OK", val |-> 0]]
    /\ UNCHANGED <<listv, heapv, hazard_ptrs, retired_list, histv, regv>>

ll_iterator(t) ==
    \/ iterator_begin_call(t)
    \/ iterator_begin_nothread(t)
    \/ iterator_end_nothread(t)
    \/ iterator_begin_load(t)
    \/ iterator_begin_store(t)
    \/ iterator_next_nolist(t)
    \/ iterator_next_call(t)
    \/ iterator_next_first(t)
    \/ iterator_next_resume(t)
    \/ iterator_next_hp(t)
    \/ iterator_next_vis(t)
    \/ iterator_next_rel_ret(t)
    \/ iterator_next_ret(t)
    \/ iterator_next_ldnext(t)
    \/ iterator_next_rel_adv(t)
    \/ iterator_end(t)
    \/ iterator2_begin_call(t)
    \/ iterator2_begin_load(t)
    \/ iterator2_begin_store(t)
    \/ iterator2_end(t)

\* ------------------------------------- ll_snapshot_first_, ll_snapshot_next_
\* Traversal at a snapshot version the caller passes (never 0 here). The
\* caller's loop hands ll_snapshot_next_ the element the previous call returned
\* and stops at NULL.
\* Loop test of the search for the next visible node: while (curr).
snapshot_to(t, op, c) ==
    IF c = NULL
    THEN Return(t, op, "NULL", 0)
    ELSE /\ SetLoc(t, [loc[t] EXCEPT !.curr = c, !.nxt = NULL])
         /\ Goto(t, "sf_hp")
         /\ UNCHANGED ret

snapshot_first_call(t, s) ==
    /\ Call(t, First(s), "sf_start", [ZeroLoc EXCEPT !.snap = s])
    /\ UNCHANGED <<listv, heapv, domv, iter, ret, histv, regv>>

\* curr = load(head).
snapshot_first_head(t) ==
    /\ pc[t] = "sf_start"
    /\ snapshot_to(t, "snap_first", head)
    /\ trav' = [trav EXCEPT ![t] = [snap |-> loc[t].snap, seen |-> {},
                                    quiet |-> TRUE, base |-> {}]]
    /\ UNCHANGED <<listv, heapv, domv, iter, prog, uaf, nfree, ndtor, rm_stores, rm_rets, rc_pre, regv>>

\* hp_acquire(state, 0, curr).
snapshot_hp(t) ==
    /\ pc[t] = "sf_hp"
    /\ hazard_ptrs' = [hazard_ptrs EXCEPT ![t][0] = loc[t].curr]
    /\ Goto(t, "sf_vis")
    /\ UNCHANGED <<listv, heapv, active_snapshot, retired_list, iter, loc, ret, prog,
                   histv, regv>>

\* node_visible(curr, snapshot_version).
snapshot_vis(t) ==
    /\ pc[t] = "sf_vis"
    /\ \E ins \in RdInsert(loc[t].curr), rid \in RdRemoved(loc[t].curr) :
          Goto(t, IF node_visible(ins, rid, loc[t].snap) THEN "sf_rel_ret"
                  ELSE "sf_ldnext")
    /\ Touch(loc[t].curr)
    /\ UNCHANGED <<listv, heapv, domv, iter, loc, ret, prog, nfree, ndtor, rm_stores, rm_rets, rc_pre,
                   trav, regv>>

\* hp_release(state, 0) before the return.
snapshot_rel_ret(t) ==
    /\ pc[t] = "sf_rel_ret"
    /\ hazard_ptrs' = [hazard_ptrs EXCEPT ![t][0] = NULL]
    /\ Goto(t, "sf_ret")
    /\ UNCHANGED <<listv, heapv, active_snapshot, retired_list, iter, loc, ret, prog,
                   histv, regv>>

\* return curr->user_elm.
snapshot_ret(t) ==
    /\ pc[t] = "sf_ret"
    /\ \E e \in RdElm(loc[t].curr) :
          Return(t, IF loc[t].elm = 0 THEN "snap_first" ELSE "snap_next", "ELM", e)
    /\ Touch(loc[t].curr)
    /\ trav' = [trav EXCEPT ![t].seen = @ \cup {loc[t].curr}]
    /\ UNCHANGED <<listv, heapv, domv, iter, prog, nfree, ndtor, rm_stores, rm_rets, rc_pre, regv>>

\* next = load(curr->next).
snapshot_ldnext(t) ==
    /\ pc[t] = "sf_ldnext"
    /\ \E v \in RdNext(loc[t].curr) : SetLoc(t, [loc[t] EXCEPT !.nxt = v])
    /\ Touch(loc[t].curr)
    /\ Goto(t, "sf_rel_adv")
    /\ UNCHANGED <<listv, heapv, domv, iter, ret, prog, nfree, ndtor, rm_stores, rm_rets, rc_pre, trav, regv>>

\* hp_release(state, 0); curr = next.
snapshot_rel_adv(t) ==
    /\ pc[t] = "sf_rel_adv"
    /\ hazard_ptrs' = [hazard_ptrs EXCEPT ![t][0] = NULL]
    /\ snapshot_to(t, IF loc[t].elm = 0 THEN "snap_first" ELSE "snap_next",
                   loc[t].nxt)
    /\ UNCHANGED <<listv, heapv, active_snapshot, retired_list, iter, prog, histv, regv>>

\* ll_snapshot_next_(snapshot_version, elm): elm is what the last call returned.
snapshot_next_call(t, s) ==
    /\ ret[t].op \in {"snap_first", "snap_next"}
    /\ ret[t].code = "ELM"
    /\ Call(t, Next_(s), "sn_start", [ZeroLoc EXCEPT !.snap = s, !.elm = ret[t].val])
    /\ UNCHANGED <<listv, heapv, domv, iter, ret, histv, regv>>

\* The caller's loop ends when the previous call returned NULL: no call is made.
snapshot_loop_end(t, s) ==
    /\ ~(ret[t].op \in {"snap_first", "snap_next"} /\ ret[t].code = "ELM")
    /\ Call(t, Next_(s), "idle", ZeroLoc)
    /\ UNCHANGED <<listv, heapv, domv, iter, ret, histv, regv>>

\* Loop test of the search for the node containing elm: while (curr).
snapshot_seek_to(t, c) ==
    IF c = NULL
    THEN Return(t, "snap_next", "NULL", 0)
    ELSE /\ SetLoc(t, [loc[t] EXCEPT !.curr = c, !.nxt = NULL])
         /\ Goto(t, "sn_hp")
         /\ UNCHANGED ret

\* curr = load(head).
snapshot_next_head(t) ==
    /\ pc[t] = "sn_start"
    /\ snapshot_seek_to(t, head)
    /\ UNCHANGED <<listv, heapv, domv, iter, prog, histv, regv>>

\* hp_acquire(state, 0, curr).
snapshot_next_hp(t) ==
    /\ pc[t] = "sn_hp"
    /\ hazard_ptrs' = [hazard_ptrs EXCEPT ![t][0] = loc[t].curr]
    /\ Goto(t, "sn_cmp")
    /\ UNCHANGED <<listv, heapv, active_snapshot, retired_list, iter, loc, ret, prog,
                   histv, regv>>

\* curr->user_elm == elm; then next = load(curr->next) on either branch.
snapshot_next_cmp(t) ==
    /\ pc[t] = "sn_cmp"
    /\ \E e \in RdElm(loc[t].curr), v \in RdNext(loc[t].curr) :
          /\ SetLoc(t, [loc[t] EXCEPT !.nxt = v])
          /\ Goto(t, IF e = loc[t].elm THEN "sn_rel_found" ELSE "sn_rel_adv")
    /\ Touch(loc[t].curr)
    /\ UNCHANGED <<listv, heapv, domv, iter, ret, prog, nfree, ndtor, rm_stores, rm_rets, rc_pre, trav, regv>>

\* Found: hp_release(state, 0); search on from curr->next.
snapshot_next_rel_found(t) ==
    /\ pc[t] = "sn_rel_found"
    /\ hazard_ptrs' = [hazard_ptrs EXCEPT ![t][0] = NULL]
    /\ snapshot_to(t, "snap_next", loc[t].nxt)
    /\ UNCHANGED <<listv, heapv, active_snapshot, retired_list, iter, prog, histv, regv>>

\* Not found yet: hp_release(state, 0); curr = next.
snapshot_next_rel_adv(t) ==
    /\ pc[t] = "sn_rel_adv"
    /\ hazard_ptrs' = [hazard_ptrs EXCEPT ![t][0] = NULL]
    /\ snapshot_seek_to(t, loc[t].nxt)
    /\ UNCHANGED <<listv, heapv, active_snapshot, retired_list, iter, prog, histv, regv>>

ll_snapshot(t) ==
    \/ \E s \in 1..MaxTxn : snapshot_first_call(t, s)
    \/ snapshot_first_head(t)
    \/ snapshot_hp(t)
    \/ snapshot_vis(t)
    \/ snapshot_rel_ret(t)
    \/ snapshot_ret(t)
    \/ snapshot_ldnext(t)
    \/ snapshot_rel_adv(t)
    \/ \E s \in 1..MaxTxn : snapshot_next_call(t, s)
    \/ \E s \in 1..MaxTxn : snapshot_loop_end(t, s)
    \/ snapshot_next_head(t)
    \/ snapshot_next_hp(t)
    \/ snapshot_next_cmp(t)
    \/ snapshot_next_rel_found(t)
    \/ snapshot_next_rel_adv(t)

\* ------------------------------------------------------------- ll_reclaim
\* The thread state in slot i (from 1) of the array the list's domain points at.
DomainSlot(i) == arr_slot[threads[ListDomain]][i]

\* if (!tls_thread_state) return.
reclaim_nothread(t) ==
    /\ tls_thread_state[t] = NULL
    /\ CallReturn(t, Rc, "reclaim", "NOOP")
    /\ UNCHANGED <<listv, heapv, domv, iter, histv, regv>>

\* min_active_snapshot starts: min = UINT64_MAX; count = load(thread_count).
reclaim_call(t) ==
    /\ tls_thread_state[t] # NULL
    /\ Call(t, Rc, IF thread_count[ListDomain] = 0 THEN "rc_commit" ELSE "rc_min",
            [ZeroLoc EXCEPT !.min = UINT64_MAX, !.idx = 1,
                            !.cap = thread_count[ListDomain]])
    /\ rc_pre' = [rc_pre EXCEPT ![t] = IF OthersDone(t) THEN Eligible ELSE {}]
    /\ UNCHANGED <<listv, heapv, domv, iter, ret, uaf, nfree, ndtor, rm_stores, rm_rets, trav, regv>>

\* ll_reclaim(&other, free_cb) on a second list bound to the same domain by
\* ll_init, on which nothing is ever inserted.
reclaim_other_call(t) ==
    /\ tls_thread_state[t] # NULL
    /\ Call(t, RcOther, IF thread_count[ListDomain] = 0 THEN "rc_commit" ELSE "rc_min",
            [ZeroLoc EXCEPT !.min = UINT64_MAX, !.idx = 1,
                            !.cap = thread_count[ListDomain], !.other = TRUE])
    /\ UNCHANGED <<listv, heapv, domv, iter, ret, histv, regv>>

\* head and commit_id of the list of the call: those of the second list are
\* as ll_init left them.
ListCommit(t) == IF loc[t].other THEN 1 ELSE commit_id
ListHead(t) == IF loc[t].other THEN NULL ELSE head

\* min_active_snapshot: state = threads[i]; if (!state) continue;
\* v = load(state->active_snapshot).
reclaim_min(t) ==
    /\ pc[t] = "rc_min"
    /\ LET state == DomainSlot(loc[t].idx)
           v == IF state = NULL THEN 0 ELSE active_snapshot[state]
           m == IF v # 0 /\ v < loc[t].min THEN v ELSE loc[t].min
       IN IF loc[t].idx < loc[t].cap
          THEN /\ SetLoc(t, [loc[t] EXCEPT !.min = m, !.idx = @ + 1])
               /\ UNCHANGED pc
          ELSE /\ SetLoc(t, [loc[t] EXCEPT !.min = m, !.idx = 0])
               /\ Goto(t, IF m = UINT64_MAX THEN "rc_commit" ELSE "rc_head")
    /\ UNCHANGED <<listv, heapv, domv, iter, ret, prog, histv, regv>>

\* min_snap == UINT64_MAX: min_snap = load(commit_id).
reclaim_commit(t) ==
    /\ pc[t] = "rc_commit"
    /\ SetLoc(t, [loc[t] EXCEPT !.min = ListCommit(t)])
    /\ Goto(t, "rc_head")
    /\ UNCHANGED <<listv, heapv, domv, iter, ret, prog, histv, regv>>

\* Loop test of phase 1: while (curr); then phase 2 with still_held = NULL.
reclaim_walk_to(t, p, c) ==
    /\ SetLoc(t, [loc[t] EXCEPT !.prev = IF c = NULL THEN NULL ELSE p, !.curr = c,
                                !.nxt = NULL, !.recl = FALSE, !.held = NULL])
    /\ Goto(t, IF c = NULL THEN "rc_drain" ELSE "rc_rid")

\* prev = NULL; curr = load(head).
reclaim_head(t) ==
    /\ pc[t] = "rc_head"
    /\ reclaim_walk_to(t, NULL, ListHead(t))
    /\ UNCHANGED <<listv, heapv, domv, iter, ret, prog, histv, regv>>

\* rid = load(curr->removed_txn_id); reclaimable = rid != 0 && rid < min_snap.
reclaim_rid(t) ==
    /\ pc[t] = "rc_rid"
    /\ \E rid \in RdRemoved(loc[t].curr) :
          SetLoc(t, [loc[t] EXCEPT !.recl = (rid # 0 /\ rid < loc[t].min)])
    /\ Touch(loc[t].curr)
    /\ Goto(t, "rc_next")
    /\ UNCHANGED <<listv, heapv, domv, iter, ret, prog, nfree, ndtor, rm_stores, rm_rets, rc_pre, trav, regv>>

\* next_val = load(curr->next); not reclaimable: prev = curr; curr = next.
reclaim_next(t) ==
    /\ pc[t] = "rc_next"
    /\ \E v \in RdNext(loc[t].curr) :
          IF loc[t].recl
          THEN /\ SetLoc(t, [loc[t] EXCEPT !.nxt = v])
               /\ Goto(t, "rc_hp")
          ELSE reclaim_walk_to(t, loc[t].curr, v)
    /\ Touch(loc[t].curr)
    /\ UNCHANGED <<listv, heapv, domv, iter, ret, prog, nfree, ndtor, rm_stores, rm_rets, rc_pre, trav, regv>>

\* hp_acquire(state, 0, curr).
reclaim_hp(t) ==
    /\ pc[t] = "rc_hp"
    /\ hazard_ptrs' = [hazard_ptrs EXCEPT ![t][0] = loc[t].curr]
    /\ Goto(t, "rc_cas")
    /\ UNCHANGED <<listv, heapv, active_snapshot, retired_list, iter, loc, ret, prog,
                   histv, regv>>

\* prev == NULL: compare_exchange_weak(head, curr, next_val) succeeds.
reclaim_cas_head_ok(t) ==
    /\ pc[t] = "rc_cas"
    /\ loc[t].prev = NULL
    /\ head = loc[t].curr
    /\ head' = loc[t].nxt
    /\ trav' = Disturb
    /\ Goto(t, "rc_rel_retire")
    /\ UNCHANGED <<commit_id, heapv, domv, iter, loc, ret, prog, uaf, nfree, ndtor,
                   rm_stores, rm_rets, rc_pre, regv>>

\* prev != NULL: compare_exchange_weak(prev->next, curr, next_val) succeeds.
reclaim_cas_prev_ok(t) ==
    /\ pc[t] = "rc_cas"
    /\ loc[t].prev # NULL
    /\ loc[t].curr \in RdNext(loc[t].prev)
    /\ next' = [next EXCEPT ![loc[t].prev] = loc[t].nxt]
    /\ Touch(loc[t].prev)
    /\ trav' = Disturb
    /\ Goto(t, "rc_rel_retire")
    /\ UNCHANGED <<listv, st, user_elm, insert_txn_id, removed_txn_id, domv, iter, loc,
                   ret, prog, nfree, ndtor, rm_stores, rm_rets, rc_pre, regv>>

\* The compare_exchange_weak fails (pointer changed, or spuriously).
reclaim_cas_fail(t) ==
    /\ pc[t] = "rc_cas"
    /\ IF loc[t].prev = NULL THEN UNCHANGED uaf ELSE Touch(loc[t].prev)
    /\ Goto(t, "rc_rel_adv")
    /\ UNCHANGED <<listv, heapv, domv, iter, loc, ret, prog, nfree, ndtor, rm_stores, rm_rets, rc_pre,
                   trav, regv>>

\* unlinked: hp_release(state, 0).
reclaim_rel_retire(t) ==
    /\ pc[t] = "rc_rel_retire"
    /\ hazard_ptrs' = [hazard_ptrs EXCEPT ![t][0] = NULL]
    /\ Goto(t, "rc_retire")
    /\ UNCHANGED <<listv, heapv, active_snapshot, retired_list, iter, loc, ret, prog,
                   histv, regv>>

\* store(curr->next, retired_list); retired_list = curr; curr = next; continue.
reclaim_retire(t) ==
    /\ pc[t] = "rc_retire"
    /\ next' = [next EXCEPT ![loc[t].curr] = retired_list[t]]
    /\ retired_list' = [retired_list EXCEPT ![t] = loc[t].curr]
    /\ Touch(loc[t].curr)
    /\ trav' = Disturb
    /\ reclaim_walk_to(t, loc[t].prev, loc[t].nxt)
    /\ UNCHANGED <<listv, st, user_elm, insert_txn_id, removed_txn_id, hazard_ptrs,
                   active_snapshot, iter, ret, prog, nfree, ndtor, rm_stores, rm_rets, rc_pre, regv>>

\* not unlinked: hp_release(state, 0); prev = curr; curr = next.
reclaim_rel_adv(t) ==
    /\ pc[t] = "rc_rel_adv"
    /\ hazard_ptrs' = [hazard_ptrs EXCEPT ![t][0] = NULL]
    /\ reclaim_walk_to(t, loc[t].curr, loc[t].nxt)
    /\ UNCHANGED <<listv, heapv, active_snapshot, retired_list, iter, ret, prog, histv, regv>>

\* Phase 2, retired list empty: retired_list = still_held; return.
reclaim_done(t) ==
    /\ pc[t] = "rc_drain"
    /\ retired_list[t] = NULL
    /\ retired_list' = [retired_list EXCEPT ![t] = loc[t].held]
    /\ Return(t, IF loc[t].other THEN "reclaim_other" ELSE "reclaim", "OK", 0)
    /\ UNCHANGED <<listv, heapv, hazard_ptrs, active_snapshot, iter, prog, histv, regv>>

\* Phase 2: n = retired_list; retired_list = load(n->next); any_hp_equals starts.
reclaim_pop(t) ==
    /\ pc[t] = "rc_drain"
    /\ retired_list[t] # NULL
    /\ \E v \in RdNext(retired_list[t]) :
          retired_list' = [retired_list EXCEPT ![t] = v]
    /\ Touch(retired_list[t])
    /\ SetLoc(t, [loc[t] EXCEPT !.curr = retired_list[t], !.idx = 0,
                                !.cap = thread_count[ListDomain]])
    /\ Goto(t, IF thread_count[ListDomain] = 0 THEN "rc_user" ELSE "rc_scan")
    /\ UNCHANGED <<listv, heapv, hazard_ptrs, active_snapshot, iter, ret, prog, nfree,
                   ndtor, rm_stores, rm_rets, rc_pre, trav, regv>>

\* Array slot and hazard cell of the k-th load of any_hp_equals, and the
\* pointer it yields (NULL where the array slot holds no state).
ScanThread(k) == (k \div HP_SLOTS_PER_THREAD) + 1
ScanSlot(k) == k % HP_SLOTS_PER_THREAD
ScanCell(k) ==
    LET state == DomainSlot(ScanThread(k))
    IN IF state = NULL THEN NULL ELSE hazard_ptrs[state][ScanSlot(k)]

\* any_hp_equals: load(threads[i]->hazard_ptrs[j]) != p.
reclaim_scan_miss(t) ==
    /\ pc[t] = "rc_scan"
    /\ ScanCell(loc[t].idx) # loc[t].curr
    /\ IF loc[t].idx + 1 < loc[t].cap * HP_SLOTS_PER_THREAD
       THEN /\ SetLoc(t, [loc[t] EXCEPT !.idx = @ + 1])
            /\ UNCHANGED pc
       ELSE /\ SetLoc(t, [loc[t] EXCEPT !.idx = 0])
            /\ Goto(t, "rc_user")
    /\ UNCHANGED <<listv, heapv, domv, iter, ret, prog, histv, regv>>

\* Variant of reclaim_scan_hit: the hazard pointer found is ignored and the
\* node goes on to be freed.
reclaim_scan_hit_free(t) ==
    /\ pc[t] = "rc_scan"
    /\ ScanCell(loc[t].idx) = loc[t].curr
    /\ SetLoc(t, [loc[t] EXCEPT !.idx = 0])
    /\ Goto(t, "rc_user")
    /\ UNCHANGED <<listv, heapv, domv, iter, ret, prog, histv, regv>>

\* any_hp_equals returns true: store(n->next, still_held); still_held = n.
reclaim_scan_hit(t) ==
    /\ pc[t] = "rc_scan"
    /\ ScanCell(loc[t].idx) = loc[t].curr
    /\ next' = [next EXCEPT ![loc[t].curr] = loc[t].held]
    /\ Touch(loc[t].curr)
    /\ SetLoc(t, [loc[t] EXCEPT !.held = loc[t].curr, !.curr = NULL, !.idx = 0])
    /\ Goto(t, "rc_drain")
    /\ UNCHANGED <<listv, st, user_elm, insert_txn_id, removed_txn_id, domv, iter, ret,
                   prog, nfree, ndtor, rm_stores, rm_rets, rc_pre, trav, regv>>

\* any_hp_equals returned false: user = n->user_elm.
reclaim_user(t) ==
    /\ pc[t] = "rc_user"
    /\ \E e \in RdElm(loc[t].curr) : SetLoc(t, [loc[t] EXCEPT !.elm = e])
    /\ Touch(loc[t].curr)
    /\ Goto(t, "rc_free")
    /\ UNCHANGED <<listv, heapv, domv, iter, ret, prog, nfree, ndtor, rm_stores, rm_rets, rc_pre,
                   trav, regv>>

\* free(n); free_cb(user).
reclaim_free(t) ==
    /\ pc[t] = "rc_free"
    /\ ndtor' = [ndtor EXCEPT ![loc[t].elm] = Min2(@ + 1, 2)]
    /\ free(loc[t].curr)
    /\ SetLoc(t, [loc[t] EXCEPT !.curr = NULL, !.elm = 0])
    /\ Goto(t, "rc_drain")
    /\ UNCHANGED <<listv, user_elm, insert_txn_id, removed_txn_id, next, domv, iter,
                   ret, prog, uaf, rm_stores, rm_rets, rc_pre, regv>>

ll_reclaim(t) ==
    \/ reclaim_call(t)
    \/ reclaim_other_call(t)
    \/ reclaim_nothread(t)
    \/ reclaim_min(t)
    \/ reclaim_commit(t)
    \/ reclaim_head(t)
    \/ reclaim_rid(t)
    \/ reclaim_next(t)
    \/ reclaim_hp(t)
    \/ reclaim_cas_head_ok(t)
    \/ reclaim_cas_prev_ok(t)
    \/ reclaim_cas_fail(t)
    \/ reclaim_rel_retire(t)
    \/ reclaim_retire(t)
    \/ reclaim_rel_adv(t)
    \/ reclaim_done(t)
    \/ reclaim_pop(t)
    \/ reclaim_scan_miss(t)
    \/ reclaim_scan_hit(t)
    \/ reclaim_user(t)
    \/ reclaim_free(t)

Next ==
    \E t \in Threads :
        \/ ll_insert_head(t)
        \/ ll_remove(t)
        \/ ll_remove_first(t)
        \/ ll_iterator(t)
        \/ ll_snapshot(t)
        \/ ll_reclaim(t)

Spec == Init /\ [][Next]_vars

\* ===================================================== thread registration
\* Loads of a slot of a threads array: an array that was freed yields anything.
RdSlot(a, i) ==
    IF arr_st[a] = "live" THEN {arr_slot[a][i + 1]} ELSE States \cup {NULL}

\* Access to a threads array, or to a thread state, that is not allocated.
TouchMem(alive) ==
    /\ alive \/ uaf < MaxWild
    /\ uaf' = IF alive THEN uaf ELSE uaf + 1

\* new_cap = cap * 2; while (new_cap < needed) new_cap *= 2.
RECURSIVE GrowTo(_, _)
GrowTo(cap, needed) == IF cap >= needed THEN cap ELSE GrowTo(cap * 2, needed)

\* tls_thread_state = state; tls_domain = domain; return LL_OK.
Bind(t, state) ==
    /\ tls_thread_state' = [tls_thread_state EXCEPT ![t] = state]
    /\ tls_domain' = [tls_domain EXCEPT ![t] = loc[t].dom]
    /\ Return(t, "register", "OK", state)

\* Variant of register_again: the thread looks for a slot once more.
register_again_rescan(t, d) ==
    /\ tls_domain[t] = d /\ tls_thread_state[t] # NULL
    /\ Call(t, Reg(d), "rg_arr", [ZeroLoc EXCEPT !.dom = d, !.cap = capacity[d]])
    /\ UNCHANGED <<listv, heapv, domv, iter, ret, histv, regv>>

\* Already registered with this domain: return LL_OK.
register_again(t, d) ==
    /\ tls_domain[t] = d /\ tls_thread_state[t] # NULL
    /\ CallReturn(t, Reg(d), "register", "OK")
    /\ UNCHANGED <<listv, heapv, domv, iter, histv, regv>>

\* cap = load(capacity); the scan for a free slot starts at i = 0.
register_call(t, d) ==
    /\ ~(tls_domain[t] = d /\ tls_thread_state[t] # NULL)
    /\ Call(t, Reg(d), "rg_arr", [ZeroLoc EXCEPT !.dom = d, !.cap = capacity[d]])
    /\ UNCHANGED <<listv, heapv, domv, iter, ret, histv, regv>>

\* The same call, made when memory is short: the first calloc it reaches fails.
register_nomem_call(t, d) ==
    /\ ~(tls_domain[t] = d /\ tls_thread_state[t] # NULL)
    /\ Call(t, RegNoMem(d), "rg_arr",
            [ZeroLoc EXCEPT !.dom = d, !.cap = capacity[d], !.nomem = TRUE])
    /\ UNCHANGED <<listv, heapv, domv, iter, ret, histv, regv>>

\* Loop test of the scan: for (i = 0; i < cap; i++).
register_scan_to(t, i) ==
    /\ SetLoc(t, [loc[t] EXCEPT !.i = i, !.state = NULL])
    /\ Goto(t, IF i < loc[t].cap THEN "rg_arr" ELSE "rg_fadd")

\* The plain load of domain->threads in domain->threads[i].
register_arr(t) ==
    /\ pc[t] = "rg_arr"
    /\ SetLoc(t, [loc[t] EXCEPT !.arr = threads[loc[t].dom]])
    /\ Goto(t, "rg_slot")
    /\ UNCHANGED <<listv, heapv, domv, iter, ret, prog, histv, regv>>

\* slot = domain->threads[i]; a null slot is skipped.
register_slot(t) ==
    /\ pc[t] = "rg_slot"
    /\ \E s \in RdSlot(loc[t].arr, loc[t].i) :
          IF s = NULL
          THEN register_scan_to(t, loc[t].i + 1)
          ELSE /\ SetLoc(t, [loc[t] EXCEPT !.state = s])
               /\ Goto(t, "rg_cas")
    /\ TouchMem(arr_st[loc[t].arr] = "live")
    /\ UNCHANGED <<listv, heapv, domv, iter, ret, prog, nfree, ndtor, rm_stores, rm_rets, rc_pre,
                   trav, regv>>

\* Variant of register_cas_ok: the slot is taken without looking at in_use.
register_cas_blind(t) ==
    /\ pc[t] = "rg_cas"
    /\ in_use' = [in_use EXCEPT ![loc[t].state] = TRUE]
    /\ Bind(t, loc[t].state)
    /\ TouchMem(state_st[loc[t].state] = "live")
    /\ UNCHANGED <<listv, heapv, domv, iter, prog, nfree, ndtor, rm_stores, rm_rets, rc_pre, trav,
                   threads, thread_count, capacity, resize_lock, arr_st, arr_slot,
                   state_st>>

\* compare_exchange_strong(slot->in_use, false, true) succeeds: the slot is ours.
register_cas_ok(t) ==
    /\ pc[t] = "rg_cas"
    /\ ~in_use[loc[t].state]
    /\ in_use' = [in_use EXCEPT ![loc[t].state] = TRUE]
    /\ Bind(t, loc[t].state)
    /\ TouchMem(state_st[loc[t].state] = "live")
    /\ UNCHANGED <<listv, heapv, domv, iter, prog, nfree, ndtor, rm_stores, rm_rets, rc_pre, trav,
                   threads, thread_count, capacity, resize_lock, arr_st, arr_slot,
                   state_st>>

\* The compare_exchange_strong fails: the slot is in use.
register_cas_fail(t) ==
    /\ pc[t] = "rg_cas"
    /\ in_use[loc[t].state]
    /\ register_scan_to(t, loc[t].i + 1)
    /\ TouchMem(state_st[loc[t].state] = "live")
    /\ UNCHANGED <<listv, heapv, domv, iter, ret, prog, nfree, ndtor, rm_stores, rm_rets, rc_pre,
                   trav, regv>>

\* idx = fetch_add(thread_count, 1); if (idx >= cap) domain_grow(domain, idx + 1).
register_fadd(t) ==
    /\ pc[t] = "rg_fadd"
    /\ thread_count' = [thread_count EXCEPT ![loc[t].dom] = @ + 1]
    /\ SetLoc(t, [loc[t] EXCEPT !.idx = thread_count[loc[t].dom]])
    /\ Goto(t, IF thread_count[loc[t].dom] >= loc[t].cap THEN "dg_cap" ELSE "rg_alloc")
    /\ UNCHANGED <<listv, heapv, domv, iter, ret, prog, histv, tlsv, threads, capacity,
                   resize_lock, arr_st, arr_slot, state_st, in_use>>

\* domain_grow: cap = load(capacity); if (needed <= cap) return 0.
grow_cap(t) ==
    /\ pc[t] = "dg_cap"
    /\ Goto(t, IF loc[t].idx + 1 <= capacity[loc[t].dom] THEN "rg_alloc" ELSE "dg_lock")
    /\ UNCHANGED <<listv, heapv, domv, iter, loc, ret, prog, histv, regv>>

\* while (test_and_set(resize_lock)) spin: the lock is taken when it is free.
grow_lock(t) ==
    /\ pc[t] = "dg_lock"
    /\ ~resize_lock[loc[t].dom]
    /\ resize_lock' = [resize_lock EXCEPT ![loc[t].dom] = TRUE]
    /\ Goto(t, "dg_recheck")
    /\ UNCHANGED <<listv, heapv, domv, iter, loc, ret, prog, histv, tlsv, threads,
                   thread_count, capacity, arr_st, arr_slot, state_st, in_use>>

\* Re-check after acquiring the lock; else new_cap is computed.
grow_recheck(t) ==
    /\ pc[t] = "dg_recheck"
    /\ LET cap == capacity[loc[t].dom]
       IN IF loc[t].idx + 1 <= cap
          THEN /\ SetLoc(t, [loc[t] EXCEPT !.arr = NULL])
               /\ Goto(t, "dg_unlock")
          ELSE /\ SetLoc(t, [loc[t] EXCEPT !.min = cap,
                                           !.cap = GrowTo(cap * 2, loc[t].idx + 1)])
               /\ Goto(t, "dg_copy")
    /\ UNCHANGED <<listv, heapv, domv, iter, ret, prog, histv, regv>>

\* new_threads = calloc(new_cap); memcpy(new_threads, domain->threads, cap).
grow_copy(t) ==
    /\ pc[t] = "dg_copy"
    /\ ~loc[t].nomem
    /\ \E a \in Arrays : arr_st[a] = "unused"
    /\ LET a == CHOOSE x \in Arrays :
                   arr_st[x] = "unused" /\ \A y \in Arrays : arr_st[y] = "unused" => x <= y
           old == threads[loc[t].dom]
       IN /\ arr_st' = [arr_st EXCEPT ![a] = "live"]
          /\ arr_slot' = [arr_slot EXCEPT ![a] =
                            [i \in 1..loc[t].cap |->
                                IF i <= loc[t].min THEN arr_slot[old][i] ELSE NULL]]
          /\ SetLoc(t, [loc[t] EXCEPT !.arr = old, !.narr = a])
    /\ Goto(t, "dg_swap")
    /\ UNCHANGED <<listv, heapv, domv, iter, ret, prog, histv, tlsv, threads,
                   thread_count, capacity, resize_lock, state_st, in_use>>

\* new_threads = calloc(new_cap) fails: the lock is released and domain_grow
\* returns LL_ERR_NOMEM.
grow_nomem(t) ==
    /\ pc[t] = "dg_copy"
    /\ loc[t].nomem
    /\ resize_lock' = [resize_lock EXCEPT ![loc[t].dom] = FALSE]
    /\ Goto(t, "rg_undo")
    /\ UNCHANGED <<listv, heapv, domv, iter, loc, ret, prog, histv, tlsv, threads,
                   thread_count, capacity, arr_st, arr_slot, state_st, in_use>>

\* if (err != 0) { fetch_sub(thread_count, 1); return err; }
register_undo(t) ==
    /\ pc[t] = "rg_undo"
    /\ thread_count' = [thread_count EXCEPT ![loc[t].dom] = @ - 1]
    /\ Return(t, "register", "NOMEM", 0)
    /\ UNCHANGED <<listv, heapv, domv, iter, prog, histv, tlsv, threads, capacity,
                   resize_lock, arr_st, arr_slot, state_st, in_use>>

\* old = domain->threads; domain->threads = new_threads.
grow_swap(t) ==
    /\ pc[t] = "dg_swap"
    /\ threads' = [threads EXCEPT ![loc[t].dom] = loc[t].narr]
    /\ Goto(t, "dg_setcap")
    /\ UNCHANGED <<listv, heapv, domv, iter, loc, ret, prog, histv, tlsv, thread_count,
                   capacity, resize_lock, arr_st, arr_slot, state_st, in_use>>

\* store(capacity, new_cap).
grow_setcap(t) ==
    /\ pc[t] = "dg_setcap"
    /\ capacity' = [capacity EXCEPT ![loc[t].dom] = loc[t].cap]
    /\ Goto(t, "dg_unlock")
    /\ UNCHANGED <<listv, heapv, domv, iter, loc, ret, prog, histv, tlsv, threads,
                   thread_count, resize_lock, arr_st, arr_slot, state_st, in_use>>

\* atomic_flag_clear(resize_lock).
grow_unlock(t) ==
    /\ pc[t] = "dg_unlock"
    /\ resize_lock' = [resize_lock EXCEPT ![loc[t].dom] = FALSE]
    /\ Goto(t, IF loc[t].arr = NULL THEN "rg_alloc" ELSE "dg_free")
    /\ UNCHANGED <<listv, heapv, domv, iter, loc, ret, prog, histv, tlsv, threads,
                   thread_count, capacity, arr_st, arr_slot, state_st, in_use>>

\* free(old); return 0.
grow_free(t) ==
    /\ pc[t] = "dg_free"
    /\ arr_st' = [arr_st EXCEPT ![loc[t].arr] = "freed"]
    /\ Goto(t, "rg_alloc")
    /\ UNCHANGED <<listv, heapv, domv, iter, loc, ret, prog, histv, tlsv, threads,
                   thread_count, capacity, resize_lock, arr_slot, state_st, in_use>>

\* state = calloc(...); in_use = true; active_snapshot = 0; hazard_ptrs = NULL;
\* retired_list = NULL.
register_alloc(t) ==
    /\ pc[t] = "rg_alloc"
    /\ ~loc[t].nomem
    /\ \E s \in States : state_st[s] = "unused"
    /\ LET s == CHOOSE x \in States :
                   state_st[x] = "unused" /\ \A y \in States : state_st[y] = "unused" => x <= y
       IN /\ state_st' = [state_st EXCEPT ![s] = "live"]
          /\ in_use' = [in_use EXCEPT ![s] = TRUE]
          /\ active_snapshot' = [active_snapshot EXCEPT ![s] = 0]
          /\ hazard_ptrs' = [hazard_ptrs EXCEPT
                               ![s] = [k \in 0..(HP_SLOTS_PER_THREAD - 1) |-> NULL]]
          /\ retired_list' = [retired_list EXCEPT ![s] = NULL]
          /\ SetLoc(t, [loc[t] EXCEPT !.state = s])
    /\ Goto(t, "rg_parr")
    /\ UNCHANGED <<listv, heapv, iter, ret, prog, histv, tlsv, threads, thread_count,
                   capacity, resize_lock, arr_st, arr_slot>>

\* state = calloc(...) fails: fetch_sub(thread_count, 1); return LL_ERR_NOMEM.
register_nomem(t) ==
    /\ pc[t] = "rg_alloc"
    /\ loc[t].nomem
    /\ thread_count' = [thread_count EXCEPT ![loc[t].dom] = @ - 1]
    /\ Return(t, "register", "NOMEM", 0)
    /\ UNCHANGED <<listv, heapv, domv, iter, prog, histv, tlsv, threads, capacity,
                   resize_lock, arr_st, arr_slot, state_st, in_use>>

\* The plain load of domain->threads in domain->threads[idx] = state.
register_parr(t) ==
    /\ pc[t] = "rg_parr"
    /\ SetLoc(t, [loc[t] EXCEPT !.arr = threads[loc[t].dom]])
    /\ Goto(t, "rg_pstore")
    /\ UNCHANGED <<listv, heapv, domv, iter, ret, prog, histv, regv>>

\* domain->threads[idx] = state (lost when the array was freed meanwhile);
\* tls_thread_state = state; tls_domain = domain; return LL_OK.
register_pstore(t) ==
    /\ pc[t] = "rg_pstore"
    /\ arr_slot' = IF arr_st[loc[t].arr] = "live"
                   THEN [arr_slot EXCEPT ![loc[t].arr][loc[t].idx + 1] = loc[t].state]
                   ELSE arr_slot
    /\ TouchMem(arr_st[loc[t].arr] = "live")
    /\ Bind(t, loc[t].state)
    /\ UNCHANGED <<listv, heapv, domv, iter, prog, nfree, ndtor, rm_stores, rm_rets, rc_pre, trav,
                   threads, thread_count, capacity, resize_lock, arr_st, state_st, in_use>>

ll_thread_register(t) ==
    \/ \E d \in Domains : register_again(t, d)
    \/ \E d \in Domains : register_call(t, d)
    \/ \E d \in Domains : register_nomem_call(t, d)
    \/ register_arr(t)
    \/ register_slot(t)
    \/ register_cas_ok(t)
    \/ register_cas_fail(t)
    \/ register_fadd(t)
    \/ grow_cap(t)
    \/ grow_lock(t)
    \/ grow_recheck(t)
    \/ grow_copy(t)
    \/ grow_nomem(t)
    \/ register_undo(t)
    \/ grow_swap(t)
    \/ grow_setcap(t)
    \/ grow_unlock(t)
    \/ grow_free(t)
    \/ register_alloc(t)
    \/ register_nomem(t)
    \/ register_parr(t)
    \/ register_pstore(t)

\* ll_thread_unregister by a thread that is not registered with the domain.
unregister_noop(t, d) ==
    /\ ~(tls_domain[t] = d /\ tls_thread_state[t] # NULL)
    /\ CallReturn(t, Unreg(d), "unregister", "NOOP")
    /\ UNCHANGED <<listv, heapv, domv, iter, histv, regv>>

unregister_call(t, d) ==
    /\ tls_domain[t] = d /\ tls_thread_state[t] # NULL
    /\ Call(t, Unreg(d), "un_hp", [ZeroLoc EXCEPT !.dom = d, !.state = tls_thread_state[t]])
    /\ UNCHANGED <<listv, heapv, domv, iter, ret, histv, regv>>

\* for (i = 0; i < HP_SLOTS_PER_THREAD; i++) store(hazard_ptrs[i], NULL).
unregister_hp(t) ==
    /\ pc[t] = "un_hp"
    /\ hazard_ptrs' = [hazard_ptrs EXCEPT ![loc[t].state][loc[t].i] = NULL]
    /\ SetLoc(t, [loc[t] EXCEPT !.i = @ + 1])
    /\ Goto(t, IF loc[t].i + 1 < HP_SLOTS_PER_THREAD THEN "un_hp" ELSE "un_snap")
    /\ UNCHANGED <<listv, heapv, active_snapshot, retired_list, iter, ret, prog, histv,
                   regv>>

\* store(active_snapshot, 0).
unregister_snap(t) ==
    /\ pc[t] = "un_snap"
    /\ active_snapshot' = [active_snapshot EXCEPT ![loc[t].state] = 0]
    /\ Goto(t, "un_use")
    /\ UNCHANGED <<listv, heapv, hazard_ptrs, retired_list, iter, loc, ret, prog, histv,
                   regv>>

\* store(in_use, false); tls_thread_state = NULL; tls_domain = NULL.
unregister_release(t) ==
    /\ pc[t] = "un_use"
    /\ in_use' = [in_use EXCEPT ![loc[t].state] = FALSE]
    /\ tls_thread_state' = [tls_thread_state EXCEPT ![t] = NULL]
    /\ tls_domain' = [tls_domain EXCEPT ![t] = NULL]
    /\ Return(t, "unregister", "OK", 0)
    /\ UNCHANGED <<listv, heapv, domv, iter, prog, histv, threads, thread_count,
                   capacity, resize_lock, arr_st, arr_slot, state_st>>

ll_thread_unregister(t) ==
    \/ \E d \in Domains : unregister_noop(t, d)
    \/ \E d \in Domains : unregister_call(t, d)
    \/ unregister_hp(t)
    \/ unregister_snap(t)
    \/ unregister_release(t)

\* What a thread does with the domains: register, register again, leave and
\* come back, leave a domain it is not in, move to the other domain.
RegScripts ==
    { <<Reg(1)>>, <<Reg(1), Reg(1)>>, <<Reg(1), Unreg(1), Reg(1)>>,
      <<Reg(1), Unreg(2), Unreg(1)>>, <<Reg(2), Reg(1)>> }

\* Registrations that run out of memory, racing with one that does not.
RegFailures ==
    { Duo(<<RegNoMem(1), Reg(1)>>, <<Reg(1)>>),
      Duo(<<RegNoMem(1)>>, <<Reg(1), Unreg(1), Reg(1)>>) }

\* State after ll_domain_create(InitCap) for every domain, ll_init of the list,
\* and the registration with the list's domain of k threads that stay idle.
InitReg ==
    /\ head = NULL
    /\ commit_id = 1
    /\ st = [n \in Nodes |-> "unused"]
    /\ user_elm = [n \in Nodes |-> 0]
    /\ insert_txn_id = [n \in Nodes |-> 0]
    /\ removed_txn_id = [n \in Nodes |-> 0]
    /\ next = [n \in Nodes |-> NULL]
    /\ hazard_ptrs = [s \in States |-> [k \in 0..(HP_SLOTS_PER_THREAD - 1) |-> NULL]]
    /\ active_snapshot = [s \in States |-> 0]
    /\ retired_list = [s \in States |-> NULL]
    /\ iter = [i \in 1..(2 * NumThreads) |-> NoIter]
    /\ pc = [t \in Threads |-> "idle"]
    /\ loc = [t \in Threads |-> ZeroLoc]
    /\ ret = [t \in Threads |-> NoRet]
    /\ prog \in {Duo(p, q) : p, q \in RegScripts} \cup RegFailures
    /\ uaf = 0
    /\ nfree = [n \in Nodes |-> 0]
    /\ ndtor = [e \in Elems |-> 0]
    /\ rm_stores = [n \in Nodes |-> 0]
    /\ rm_rets = 0
    /\ trav = [t \in Threads |-> NoTrav]
    /\ rc_pre = [t \in Threads |-> {}]
    /\ tls_thread_state = [t \in Threads |-> NULL]
    /\ tls_domain = [t \in Threads |-> NULL]
    /\ threads = [d \in Domains |-> d]
    /\ resize_lock = [d \in Domains |-> FALSE]
    /\ arr_st = [a \in Arrays |-> IF a \in Domains THEN "live" ELSE "unused"]
    /\ \E k \in 0..Others :
          LET pre == {NumDomains * NumThreads + j : j \in 1..k}
              cap == [d \in Domains |-> IF d = ListDomain THEN GrowTo(InitCap, k)
                                        ELSE InitCap]
          IN /\ thread_count = [d \in Domains |-> IF d = ListDomain THEN k ELSE 0]
             /\ capacity = cap
             /\ arr_slot = [a \in Arrays |->
                              IF a = ListDomain THEN Slots(pre, cap[a])
                              ELSE IF a \in Domains THEN Slots({}, cap[a]) ELSE <<>>]
             /\ state_st = [s \in States |-> IF s \in pre THEN "live" ELSE "unused"]
             /\ in_use = [s \in States |-> s \in pre]

NextReg ==
    \E t \in Threads :
        \/ ll_thread_register(t)
        \/ ll_thread_unregister(t)

SpecReg == InitReg /\ [][NextReg]_vars

\* ================================================================ properties
\* Thread t's ll_iterator_next has just returned NULL, and nothing has changed
\* the list since that pass over the list left the head.
IterDone(t) ==
    /\ pc[t] = "idle"
    /\ iter[t].list
    /\ ret[t].op = "next"
    /\ ret[t].code = "NULL"
    /\ trav[t].quiet

\* The same for a traversal by ll_snapshot_first_ / ll_snapshot_next_.
SnapDone(t) ==
    /\ pc[t] = "idle"
    /\ ret[t].op \in {"snap_first", "snap_next"}
    /\ ret[t].code = "NULL"
    /\ trav[t].quiet

\* Minimum nonzero active_snapshot of the domain (UINT64_MAX when there is none).
MinActive ==
    LET act == {active_snapshot[s] : s \in DomainStates(ListDomain)} \ {0}
    IN IF act = {} THEN UINT64_MAX ELSE CHOOSE m \in act : \A x \in act : m <= x

\* No thread is in, or has completed, a call of the deprecated traversal.
NoSnapshotCalls ==
    \A t \in Threads :
        /\ ret[t].op \notin {"snap_first", "snap_next"}
        /\ pc[t] \notin {"sf_start", "sf_hp", "sf_vis", "sf_rel_ret", "sf_ret",
                          "sf_ldnext", "sf_rel_adv", "sn_start", "sn_hp", "sn_cmp",
                          "sn_rel_found", "sn_rel_adv"}

\* C1: in every interleaving of ll_insert_head, ll_remove, ll_remove_first,
\* ll_iterator_begin/next/end and ll_reclaim, no thread ever reads or writes a
\* field of a node after the node has been passed to free().
C1_NoUseAfterFree == NoSnapshotCalls => uaf = 0

C4_VisibleInclusive ==
    \A t \in Threads : IterDone(t) \/ SnapDone(t) =>
        \A n \in ChainSet :
            /\ insert_txn_id[n] <= trav[t].snap
            /\ removed_txn_id[n] = 0 \/ removed_txn_id[n] > trav[t].snap
            => n \in trav[t].seen

C6_ScenarioS4 ==
    \A t \in Threads :
        ( /\ SnapDone(t)
          /\ Chain = <<2, 1>>
          /\ Live(1) /\ Live(2)
          /\ insert_txn_id[1] = 1 /\ insert_txn_id[2] = 2
          /\ removed_txn_id[2] = 0 /\ removed_txn_id[1] \in {0, 3} )
        => /\ trav[t].snap = 2 => trav[t].seen = {1, 2}
           /\ trav[t].snap = 4 /\ removed_txn_id[1] = 3 => trav[t].seen = {2}

\* Thread t is the only thread that makes calls.
OnlyThread(t) ==
    \A u \in Threads \ {t} : prog[u] = <<>> /\ pc[u] = "idle" /\ ret[u].op = "none"

\* C7: when one thread calls ll_remove twice for the same element, the second
\* call finds nothing to remove (LL_ERR_NOTFOUND): removed_txn_id of a node is
\* written at most once.
C7_IdempotentRemove ==
    \A t \in Threads : OnlyThread(t) => \A n \in Nodes : rm_stores[n] <= 1

\* C8: every allocated node is passed to free() at most once.
C8_SingleFree == \A n \in Nodes : nfree[n] <= 1

\* C9: the head chain never contains a freed node (a node is unreachable from
\* list.head at the moment it is freed).
C9_FreedUnreachable == \A n \in ChainSet : st[n] # "freed"

\* C10: whenever a node is freed, no hazard cell of any thread equals it and
\* its removed_txn_id is nonzero and below the minimum nonzero active_snapshot.
C10_FreeGate ==
    [][\A n \in Nodes : Live(n) /\ st'[n] = "freed" =>
          /\ \A t \in Threads : \A k \in 0..(HP_SLOTS_PER_THREAD - 1) :
                hazard_ptrs[t][k] # n
          /\ removed_txn_id[n] # 0
          /\ removed_txn_id[n] < MinActive]_vars

\* No thread holds an active snapshot.
NoActiveSnapshot == \A t \in Threads : active_snapshot[t] = 0

\* C11: on a single thread with no active snapshot, when ll_reclaim has
\* returned, every node that was inserted and then removed is unlinked and
\* freed and the destructor has run exactly once on its element (after one
\* reclaim call, and still after a second one).
C11_ReclaimOnce ==
    \A t \in Threads :
        (OnlyThread(t) /\ pc[t] = "idle" /\ ret[t].op = "reclaim" /\ NoActiveSnapshot)
        => \A n \in Nodes : rm_stores[n] >= 1 =>
              /\ st[n] = "freed"
              /\ n \notin ChainSet
              /\ nfree[n] = 1
              /\ ndtor[user_elm[n]] = 1

\* C12: when ll_reclaim is called while no thread has an active snapshot, no
\* hazard cell equals n and no other thread is running, and n is logically
\* removed and not yet freed (still linked, or on some thread's retired list),
\* then n has been freed when that call returns.
C12_EventualReclaim ==
    \A t \in Threads :
        (pc[t] = "idle" /\ ret[t].op = "reclaim")
        => \A n \in rc_pre[t] : st[n] = "freed"

\* Thread t's last completed call is a successful ll_remove_first.
Consumed(t) == ret[t].op = "remove_first" /\ ret[t].code = "OK"

\* C13: as long as no freed node has been read, every element a remove-first
\* call returns is the element of a node whose insert has returned, and no
\* two threads' remove-first calls return the element of the same node.
C13_ConsumedOnce ==
    uaf = 0 =>
        /\ \A t \in Threads : Consumed(t) => ret[t].val \in InsertsDone
        /\ \A t, u \in Threads :
              t # u /\ Consumed(t) /\ Consumed(u) => ret[t].val # ret[u].val

\* Nothing has been removed: no store to removed_txn_id, no free, and no
\* ll_remove_first between its unlink and its free.
NothingRemoved ==
    /\ \A n \in Nodes : nfree[n] = 0 /\ rm_stores[n] = 0
    /\ \A t \in Threads : pc[t] \notin {"rf_out", "rf_out2", "rf_out2_rel1", "rf_free"}

AllIdle == \A t \in Threads : pc[t] = "idle"

\* C14: while nothing is removed, every ll_insert_head call of a registered
\* thread whose allocation succeeds returns LL_OK and the head chain holds exactly the nodes of the calls that have returned,
\* each once and ending in NULL; when all calls have returned, ll_count is the
\* number of inserts.
C14_NoLostInsert ==
    NothingRemoved =>
        /\ \A t \in Threads :
              ret[t].op = "insert" /\ tls_thread_state[t] # NULL
                  => ret[t].code \in {"OK", "NOMEM"}
        /\ ChainSet = InsertsDone
        /\ Len(Chain) = Cardinality(InsertsDone)
        /\ Chain # <<>> => next[Chain[Len(Chain)]] = NULL
        /\ AllIdle => ll_count = Cardinality(InsertsDone)

\* Two threads have inserted three nodes between them and are done, and a
\* node that was allocated earlier was linked later than its successor.
C14_Witness ==
    /\ NothingRemoved
    /\ AllIdle
    /\ \A t \in Threads : prog[t] = <<>> /\ (t <= 2 => ret[t].op = "insert")
    /\ Len(Chain) = 3
    /\ ll_count = 3
    /\ \E i \in 1..2 : Chain[i] < Chain[i + 1]

\* C15: while nothing is removed, a reader that took its snapshot when the
\* inserts of the nodes in base had returned is handed only nodes of base,
\* whatever is inserted meanwhile, and all of base by the time it gets NULL.
C15_IsolationFromInserts ==
    NothingRemoved =>
        \A t \in Threads : iter[t].list =>
            /\ trav[t].seen \subseteq trav[t].base
            /\ (pc[t] = "idle" /\ ret[t].op = "next" /\ ret[t].code = "NULL")
                  => trav[t].seen = trav[t].base

\* C16: with one thread making all the calls, an iterator begun at snapshot S
\* returns every linked node that was visible at begin (insert_txn_id < S, not
\* removed by then), also when ll_remove was called on it after the begin
\* (removed_txn_id >= S).
C16_RemoveAfterBeginStillVisible ==
    \A t \in Threads : OnlyThread(t) /\ IterDone(t) =>
        \A n \in ChainSet :
            /\ insert_txn_id[n] < iter[t].snapshot
            /\ removed_txn_id[n] = 0 \/ removed_txn_id[n] >= iter[t].snapshot
            => n \in trav[t].seen

\* Nodes that have been allocated (live or freed).
Allocated == {n \in Nodes : st[n] # "unused"}

\* Every transaction id handed out so far is below the counter and was handed
\* out once; a snapshot taken after an insert returned is above its id.
TxnsBelowCounter ==
    /\ \A t \in Threads : loc[t].txn < commit_id /\ iter[t].snapshot <= commit_id
    /\ \A n \in Allocated :
          /\ insert_txn_id[n] < commit_id
          /\ removed_txn_id[n] < commit_id
          /\ removed_txn_id[n] # insert_txn_id[n]
    /\ \A n, m \in Allocated : n # m =>
          /\ insert_txn_id[n] # insert_txn_id[m]
          /\ removed_txn_id[n] # 0 => /\ removed_txn_id[n] # insert_txn_id[m]
                                      /\ removed_txn_id[n] # removed_txn_id[m]
    /\ \A t \in Threads : iter[t].list =>
          \A n \in trav[t].base : insert_txn_id[n] < iter[t].snapshot

\* A step changes the counter only by adding one, and hands the old value to
\* exactly one thread, which is at the fetch_add of an insert or a remove.
CounterStep ==
    /\ commit_id' >= commit_id
    /\ commit_id' # commit_id =>
          /\ commit_id' = commit_id + 1
          /\ \E t \in Threads :
                /\ pc[t] \in {"ins_alloc", "rm_txn"}
                /\ loc'[t].txn = commit_id
                /\ \A u \in Threads \ {t} : loc'[u] = loc[u]

\* C17: the commit counter never decreases, each bump adds one and gives its
\* old value to one operation (so no two operations share a txn), every txn
\* in use is below the counter, and a snapshot taken after an insert returned
\* is strictly above that insert's txn.
C17_MonotonicVersioning == []TxnsBelowCounter /\ [][CounterStep]_vars

\* Three transaction ids have been drawn, by inserts and by a remove, and
\* another thread has an iterator open whose snapshot was taken after an
\* insert returned.
C17_Witness ==
    /\ commit_id >= 4
    /\ \E n \in Allocated : removed_txn_id[n] # 0
    /\ \E t \in Threads : iter[t].list /\ trav[t].base # {} /\ ~OnlyThread(t)

\* Nodes inserted before snapshot s, and those of them inserted no earlier
\* than node n.
InsertedBefore(s) == {m \in Allocated : insert_txn_id[m] < s}
InsertedFrom(n, s) == {m \in InsertedBefore(s) : insert_txn_id[m] >= insert_txn_id[n]}

\* C18: with one thread making all the calls and nothing removed, each
\* ll_iterator_next that returns an element has by then returned exactly the
\* nodes inserted before the snapshot and not earlier than that element's
\* node (so the elements come newest first), and when it returns NULL every
\* node inserted before the snapshot has been returned.
C18_LifoOrder ==
    \A t \in Threads :
        ( /\ OnlyThread(t) /\ NothingRemoved
          /\ iter[t].list /\ pc[t] = "idle" /\ ret[t].op = "next" )
        => IF ret[t].code = "ELM"
           THEN /\ ret[t].val \in Allocated
                /\ user_elm[ret[t].val] = ret[t].val
                /\ trav[t].seen = InsertedFrom(ret[t].val, iter[t].snapshot)
           ELSE trav[t].seen = InsertedBefore(iter[t].snapshot)

\* Three inserts one after another, then an iteration that has returned all
\* three nodes and then NULL.
C18_Witness ==
    \E t \in Threads :
        /\ OnlyThread(t) /\ NothingRemoved /\ IterDone(t)
        /\ Cardinality(trav[t].seen) = 3
        /\ trav[t].seen = InsertedBefore(iter[t].snapshot)

\* The head-most node of the chain that is not logically removed (or NULL).
FirstUnremoved ==
    LET idx == {i \in 1..Len(Chain) : removed_txn_id[Chain[i]] = 0}
    IN IF idx = {} THEN NULL
       ELSE Chain[CHOOSE i \in idx : \A j \in idx : i <= j]

\* The chain without node n.
ChainWithout(n) == SelectSeq(Chain, LAMBDA x : x # n)

\* Positions of ll_remove_first.
RfLabels ==
    {"rf_snap", "rf_head", "rf_hp0", "rf_verify", "rf_rel_retry", "rf_vis",
     "rf_ldnext", "rf_cas_head", "rf_out", "rf_free", "rf_walk", "rf_hp1",
     "rf_vis2", "rf_adv", "rf_ldnext2", "rf_cas_prev", "rf_out2",
     "rf_out2_rel1", "rf_relall", "rf_relall1"}

\* What a step of ll_remove_first by thread t does when t is the only caller.
QuiescentRemoveFirst(t) ==
    LET unlink == pc[t] \in {"rf_cas_head", "rf_cas_prev"}
                    /\ pc'[t] \in {"rf_out", "rf_out2"}
        done == pc'[t] = "idle"
    IN /\ unlink => /\ loc[t].curr = FirstUnremoved
                    /\ Chain' = ChainWithout(loc[t].curr)
       /\ ~unlink => Chain' = Chain
       /\ done /\ pc[t] = "rf_free" =>
             /\ ret'[t].code = "OK"
             /\ st[loc[t].curr] = "live" /\ st'[loc[t].curr] = "freed"
             /\ ret'[t].val = user_elm[loc[t].curr]
       /\ done /\ pc[t] # "rf_free" =>
             /\ ret'[t].code = "NOTFOUND"
             /\ FirstUnremoved = NULL
             /\ ll_is_empty /\ ll_count = 0

C20_DestructorOnce ==
    uaf = 0 => \A e \in Elems : ndtor[e] <= 1

\* Thread t makes a call in this step and the call returns code at once.
ReturnsAtOnce(t, code) ==
    /\ pc[t] = "idle" /\ pc'[t] = "idle"
    /\ prog'[t] # prog[t]
    /\ ret'[t].code = code

\* C21: an ll_insert_head call whose node allocation fails returns
\* LL_ERR_NOMEM and leaves the commit counter, the head pointer and every node
\* as they were, so that no transaction id is skipped.
C21_FailedInsertNoTrace ==
    [][\A t \in Threads :
          prog[t] # <<>> /\ Head(prog[t]) = InsNoMem /\ prog'[t] # prog[t]
          /\ tls_thread_state[t] # NULL
              => /\ ReturnsAtOnce(t, "NOMEM")
                 /\ ret'[t].op = "insert"
                 /\ UNCHANGED <<head, commit_id, heapv>>]_vars

\* An insert has just failed for want of memory after one that succeeded: the
\* counter is still one above the id of the node at the head.
C21_Witness ==
    \E t \in Threads :
        /\ pc[t] = "idle" /\ ret[t].op = "insert" /\ ret[t].code = "NOMEM"
        /\ head # NULL /\ Live(head)
        /\ commit_id = insert_txn_id[head] + 1

\* The calls that need a registered thread, and what each returns without one.
NeedThread == {"insert", "insert_nomem", "remove", "remove_first", "begin", "reclaim"}
Refusal(k) == IF k = "reclaim" THEN "NOOP" ELSE "NOTHREAD"

\* C22: ll_insert_head, ll_remove, ll_remove_first and ll_iterator_begin called
\* by a thread that is not registered return LL_ERR_NOTHREAD, and ll_reclaim
\* returns; none of them changes the list's head, commit counter or nodes, or
\* a thread state of the domain.
C22_FailFastUnregistered ==
    [][\A t \in Threads :
          tls_thread_state[t] = NULL /\ prog[t] # <<>> /\ prog'[t] # prog[t]
          /\ Head(prog[t]).k \in NeedThread
              => /\ ReturnsAtOnce(t, Refusal(Head(prog[t]).k))
                 /\ UNCHANGED <<listv, heapv, domv, regv>>]_vars

\* A thread that never registered has made all five calls, the last of them
\* ll_reclaim, on a list that holds a node.
C22_Witness ==
    \E t \in Threads :
        /\ tls_thread_state[t] = NULL
        /\ prog[t] = <<>> /\ ret[t].op = "reclaim" /\ ret[t].code = "NOOP"
        /\ head # NULL

\* C23: a thread that is registered only with another domain than the list's
\* gets LL_ERR_NOTHREAD from ll_insert_head, ll_remove, ll_remove_first and
\* ll_iterator_begin (and so changes nothing).
C23_NoThreadAcrossDomains ==
    \A t \in Threads :
        tls_thread_state[t] # NULL /\ tls_domain[t] # ListDomain
        /\ ret[t].op \in {"insert", "remove", "remove_first", "begin"}
            => ret[t].code = "NOTHREAD"

\* The thread states of the threads that registered earlier and stay idle.
Earlier == {s \in States : s > NumDomains * NumThreads /\ state_st[s] = "live"}

\* Thread t is registered: its last ll_thread_register has returned and it has
\* not unregistered since.
Registered(t) == pc[t] = "idle" /\ tls_thread_state[t] # NULL

\* C24: when threads register concurrently with a domain whose capacity is
\* smaller than their number, every ll_thread_register returns LL_OK (or
\* LL_ERR_NOMEM, when calloc failed), every
\* registered thread is bound to a thread state in a slot of the domain, and no
\* two threads that are registered at the same time are bound to the same one.
C24_DynamicRegistration ==
    /\ \A t \in Threads : ret[t].op = "register" => ret[t].code \in {"OK", "NOMEM"}
    /\ \A t \in Threads :
          Registered(t) =>
              /\ tls_thread_state[t] \notin Earlier
              /\ tls_thread_state[t] \in DomainStates(tls_domain[t])
    /\ \A t, u \in Threads :
          t # u /\ tls_thread_state[t] # NULL => tls_thread_state[t] # tls_thread_state[u]

\* C25: ll_thread_register by a thread that is already registered with the
\* domain returns LL_OK and changes nothing: thread_count, capacity, the slots,
\* the in_use flags and the thread's binding stay as they are.
C25_RegisterIdempotent ==
    [][\A t \in Threads :
          Registered(t) /\ prog[t] # <<>> /\ prog'[t] # prog[t]
          /\ Head(prog[t]) = Reg(tls_domain[t])
              => /\ ReturnsAtOnce(t, "OK")
                 /\ UNCHANGED <<regv, domv>>]_vars

\* A registered thread has registered again with its domain while another
\* thread is registered with the same domain, which has grown.
C25_Witness ==
    \E t, u \in Threads :
        /\ t # u /\ Registered(t) /\ Registered(u)
        /\ tls_domain[t] = tls_domain[u]
        /\ ret[t] = [op |-> "register", code |-> "OK", val |-> 0]
        /\ prog[t] = <<>>
        /\ capacity[tls_domain[t]] > InitCap

\* Linked nodes that no ll_remove has marked.
Unremoved == {n \in ChainSet : removed_txn_id[n] = 0}

\* The traversal of a query stays in allocated memory and ends at NULL.
QueryDefined ==
    /\ \A n \in ChainSet : Live(n)
    /\ Chain # <<>> => next[Chain[Len(Chain)]] = NULL

\* C26: on a quiescent list the queries are defined and agree with the
\* visibility predicate at the current commit value: ll_count is the number of
\* linked nodes with removed_txn_id = 0, ll_is_empty holds iff there is none,
\* ll_contains(elm) holds iff one of them holds elm; after a successful
\* ll_remove(elm) of a singly inserted elm, ll_contains(elm) is false.
C26_QueriesAgree ==
    AllIdle =>
        /\ QueryDefined
        /\ ll_count = Cardinality(Unremoved)
        /\ ll_is_empty <=> Unremoved = {}
        /\ \A e \in Elems : ll_contains(e) <=> \E n \in Unremoved : user_elm[n] = e
        /\ \A t \in Threads :
              (/\ ret[t].op = "remove" /\ ret[t].code = "OK"
               /\ Cardinality({n \in Allocated : user_elm[n] = ret[t].val}) = 1)
                  => ~ll_contains(ret[t].val)

\* Elements the list shows at the current commit value.
VisibleElms ==
    {user_elm[n] : n \in {m \in ChainSet :
        node_visible(insert_txn_id[m], removed_txn_id[m], commit_id)}}

\* Thread t takes a step of a call on the second list of the domain.
OtherListStep(t) ==
    \/ pc[t] = "idle" /\ prog[t] # <<>> /\ Head(prog[t]) = RcOther /\ prog'[t] # prog[t]
    \/ loc[t].other /\ (pc'[t] # pc[t] \/ loc'[t] # loc[t])

\* C27: a call on another list of the same domain leaves the list's head
\* pointer and commit counter, its linked nodes (which stay allocated, with
\* their fields) and its visible element set as they were.
C27_ListsIndependent ==
    [][\A t \in Threads : OtherListStep(t) =>
          /\ UNCHANGED <<head, commit_id>>
          /\ Chain' = Chain
          /\ \A n \in ChainSet :
                /\ st'[n] = st[n]
                /\ UNCHANGED <<user_elm[n], insert_txn_id[n], removed_txn_id[n], next[n]>>
          /\ VisibleElms' = VisibleElms]_vars

\* Node n carries the id of a remove that is not after snapshot S.
HiddenAt(n, S) == removed_txn_id[n] # 0 /\ removed_txn_id[n] <= S

\* C28: when an iterator with snapshot S has returned NULL, it has returned
\* every linked node whose insert drew an id below S from the commit counter,
\* unless a remove with an id up to S hides it, and it has returned no node
\* whose remove drew an id up to S, wherever the head compare-exchange of the
\* insert or the removed_txn_id store of the remove falls.
C28_LinearizedAtCounter ==
    \A t \in Threads :
        (pc[t] = "idle" /\ iter[t].list /\ ret[t].op = "next" /\ ret[t].code = "NULL") =>
            /\ \A n \in ChainSet :
                  (Live(n) /\ insert_txn_id[n] < iter[t].snapshot
                           /\ ~HiddenAt(n, iter[t].snapshot)) => n \in trav[t].seen
            /\ \A n \in trav[t].seen : Live(n) => ~HiddenAt(n, iter[t].snapshot)

\* Thread t's ll_reclaim unlinks the node it stands on: its compare-exchange
\* on head or on prev->next succeeds.
Unlinks(t) == pc[t] = "rc_cas" /\ pc'[t] = "rc_rel_retire"

\* C29: at the moment ll_reclaim unlinks a node, every nonzero active_snapshot
\* published by a thread of the domain is above the node's removed_txn_id, also
\* when ll_iterator_begin runs while the reclaimer scans for the minimum.
C29_SnapshotsGateUnlink ==
    [][\A t \in Threads : Unlinks(t) /\ Live(loc[t].curr) =>
          \A s \in DomainStates(ListDomain) :
              active_snapshot[s] = 0
                  \/ active_snapshot[s] > removed_txn_id[loc[t].curr]]_vars

\* Thread t is between two ll_iterator_next calls of an active iterator that
\* has returned a node.
HasCursor(t) == pc[t] = "idle" /\ iter[t].list /\ iter[t].current_node # NULL

\* A reclaimer writes a retired-list link into n->next.
RetireLink(n) ==
    \E u \in Threads : /\ pc[u] \in {"rc_retire", "rc_scan"}
                       /\ loc[u].curr = n
                       /\ next'[n] # next[n]

\* C30: between two ll_iterator_next calls the node last returned is not freed
\* and no reclaimer overwrites its next field with a retired-list link,
\* whatever ll_remove, ll_reclaim and ll_remove_first calls other threads make.
C30_CursorUsable ==
    /\ [](\A t \in Threads : HasCursor(t) => Live(iter[t].current_node))
    /\ [][\A t \in Threads : HasCursor(t) => ~RetireLink(iter[t].current_node)]_vars

\* Thread t takes the step.
ByThread(t) == pc'[t] # pc[t] \/ loc'[t] # loc[t]

\* The hazard cell the scan of thread t is at holds the retired node at hand.
ScanHit(t) == pc[t] = "rc_scan" /\ ScanCell(loc[t].idx) = loc[t].curr

\* C31: in phase 2 of ll_reclaim, when the hazard cell the scan loads equals
\* the retired node, the call neither frees the node nor runs a destructor: it
\* pushes the node on still_held, which becomes the thread's retired list when
\* the call returns; an allocated node whose scan ends without a hit is freed
\* and its element is passed to the destructor.
C31_HazardDefersFree ==
    [][\A t \in Threads : ByThread(t) =>
          /\ ScanHit(t) =>
                /\ UNCHANGED <<st, nfree, ndtor>>
                /\ pc'[t] = "rc_drain"
                /\ loc'[t].held = loc[t].curr
                /\ next'[loc[t].curr] = loc[t].held
          /\ (pc[t] = "rc_drain" /\ pc'[t] = "idle") =>
                retired_list'[tls_thread_state[t]] = loc[t].held
          /\ (pc[t] = "rc_scan" /\ ~ScanHit(t)) =>
                /\ UNCHANGED <<st, nfree, ndtor, next>>
                /\ pc'[t] \in {"rc_scan", "rc_user"}
                /\ loc'[t].curr = loc[t].curr /\ loc'[t].held = loc[t].held
          /\ (pc[t] = "rc_free" /\ Live(loc[t].curr)) =>
                /\ st'[loc[t].curr] = "freed"
                /\ ndtor'[loc[t].elm] = Min2(ndtor[loc[t].elm] + 1, 2)
                /\ loc'[t].held = loc[t].held]_vars

\* A thread's ll_reclaim has returned with a node kept back on its retired
\* list, and its next ll_reclaim (on the domain's second list, which has no
\* nodes of its own) is about to free that node.
C31_Witness ==
    \E t \in Threads :
        /\ pc[t] = "rc_free" /\ loc[t].other
        /\ Live(loc[t].curr) /\ nfree[loc[t].curr] = 0

\* C32: in the inner loop of ll_remove_first, when the caller is about to
\* compare-exchange prev->next, its hazard slot 0 holds prev and its hazard
\* slot 1 holds curr, wherever prev stands in the chain.
C32_WalkHazards ==
    \A t \in Threads : pc[t] = "rf_cas_prev" =>
        /\ hazard_ptrs[tls_thread_state[t]][0] = loc[t].prev
        /\ hazard_ptrs[tls_thread_state[t]][1] = loc[t].curr

\* ------------------------------------------------------------- termination
\* Workloads for the termination check: a thread that reclaims twice a list
\* of two nodes, the older one removed, racing with a thread that pops the
\* head and then iterates; and small workloads that exercise every operation.
LiveSetups ==
    {[prog |-> w, dom |-> AllIn(ListDomain)] : w \in
        { Duo(<<Rf, Begin, Nxt>>, <<Ins, Ins, Rm(1), Rc, Rc>>),
          Duo(<<Ins, Rf>>, <<Ins>>),
          Duo(<<Ins, Rm(1)>>, <<Rf>>),
          Solo(<<InsNoMem, Ins, Ins, Ins, Rm(3), Rm(2), Rf, Rf>>),
          Solo(<<Ins, Ins, First(2), Next_(2), Next_(2), Rm(1),
                 First(2), Next_(2), Next_(2), First(4), Next_(4)>>),
          Solo(<<Ins, Begin, Nxt, Nxt, End, Nxt>>),
          Solo(<<Ins, Begin, Begin2, Nxt, End, End2>>),
          Solo(<<Ins, Ins, Rm(1), RcOther, Rc>>) }}
    \cup {[prog |-> w, dom |-> [AllIn(ListDomain) EXCEPT ![2] = NULL]] : w \in
        { Duo(<<Ins>>, <<Ins, Rm(1), Rf, Begin, Nxt, End, Rc>>) }}

InitLive == \E setup \in LiveSetups : Start(setup)

\* One step of a call of thread t.
Step(t) ==
    \/ ll_insert_head(t)
    \/ ll_remove(t)
    \/ ll_remove_first(t)
    \/ ll_iterator(t)
    \/ ll_snapshot(t)
    \/ ll_reclaim(t)

NextLive == \E t \in Threads : Step(t)

\* Every thread that is inside a call keeps being scheduled, and a
\* compare-exchange of a retry loop (ll_insert_head, ll_remove_first) that
\* could succeed again and again eventually does: only finitely many
\* operations of other threads disturb it.
Fairness ==
    \A t \in Threads :
        /\ WF_vars(Step(t))
        /\ SF_vars(insert_cas_ok(t) \/ remove_first_cas_head_ok(t)
                                    \/ remove_first_cas_prev_ok(t))

SpecLive == InitLive /\ [][NextLive]_vars /\ Fairness

\* C33: under weak fairness, with finitely many operations started by the
\* other thread, every call that has started returns (or, failing that, has
\* read or written freed memory): no traversal runs forever on a cycle of
\* next pointers that retired-list links created.
C33_EveryCallReturns ==
    \A t \in Threads : (pc[t] # "idle") ~> (pc[t] = "idle" \/ uaf > 0)

\* Thread t is inside ll_thread_register and holds the index it reserved with
\* its fetch_add on thread_count.
Reserved(t) ==
    pc[t] \in {"dg_cap", "dg_lock", "dg_recheck", "dg_copy", "dg_swap", "dg_setcap",
               "dg_unlock", "dg_free", "rg_alloc", "rg_parr", "rg_pstore"}

\* C34: with registrations that fail with LL_ERR_NOMEM and roll thread_count
\* back, interleaved with other registrations, every slot of a domain's table
\* that holds a thread state is at an index below thread_count, and no index
\* is assigned twice: two registering threads never hold the same index, and
\* the slot a thread is about to fill is empty.
C34_RollbackKeepsSlots ==
    /\ \A d \in Domains : \A i \in 1..Len(arr_slot[threads[d]]) :
          arr_slot[threads[d]][i] # NULL => i <= thread_count[d]
    /\ \A t, u \in Threads :
          (t # u /\ Reserved(t) /\ Reserved(u) /\ loc[t].dom = loc[u].dom)
              => loc[t].idx # loc[u].idx
    /\ \A t \in Threads :
          (pc[t] = "rg_pstore" /\ loc[t].idx < Len(arr_slot[threads[loc[t].dom]]))
              => arr_slot[threads[loc[t].dom]][loc[t].idx + 1] = NULL

\* C35: from the return of ll_thread_register until ll_thread_unregister, the
\* thread's state pointer is in the domain's current slot table at an index
\* below thread_count, where any_hp_equals and min_active_snapshot look for it,
\* also when another thread grows the table during the registration.
C35_RegisteredScannable ==
    \A t \in Threads :
        tls_thread_state[t] # NULL =>
            \E i \in 1..Len(arr_slot[threads[tls_domain[t]]]) :
                /\ i <= thread_count[tls_domain[t]]
                /\ arr_slot[threads[tls_domain[t]]][i] = tls_thread_state[t]

\* C36: a node that is not visible at a snapshot value S because it was
\* removed at or before S (0 < removed_txn_id <= S) is not visible at S after
\* any further step of ll_remove, ll_insert_head or ll_reclaim either.
C36_InvisibleForGood ==
    [][\A n \in Nodes : \A S \in 1..MaxTxn :
          (Live(n) /\ st'[n] = "live"
           /\ 0 < removed_txn_id[n] /\ removed_txn_id[n] <= S)
              => ~node_visible(insert_txn_id'[n], removed_txn_id'[n], S)]_vars

\* Thread t ends its first / its second iterator in this step.
Ends(t) == ret'[t] # ret[t] /\ ret'[t].op = "end"
Ends2(t) == ret'[t] # ret[t] /\ ret'[t].op = "end2"

\* C37: a thread publishes one snapshot: ll_iterator_begin overwrites the
\* thread's active_snapshot with the snapshot of the iterator it begins, and
\* ll_iterator_end sets it to 0 whichever iterator is ended, leaving the
\* thread's other iterator as it is, open or not.
C37_OnePublishedSnapshot ==
    [][\A t \in Threads :
          /\ (pc[t] = "ib_store" /\ pc'[t] = "idle") =>
                active_snapshot'[tls_thread_state[t]] = iter[t].snapshot
          /\ (pc[t] = "ib2_store" /\ pc'[t] = "idle") =>
                active_snapshot'[tls_thread_state[t]] = iter[Second(t)].snapshot
          /\ (Ends(t) /\ tls_thread_state[t] # NULL) =>
                /\ active_snapshot'[tls_thread_state[t]] = 0
                /\ iter'[Second(t)] = iter[Second(t)]
          /\ Ends2(t) =>
                /\ active_snapshot'[tls_thread_state[t]] = 0
                /\ iter'[t] = iter[t]]_vars

\* A thread has ended one of two iterators it had open: the other one is
\* still open and has a snapshot, and the thread publishes none.
C37_Witness ==
    \E t \in Threads :
        /\ pc[t] = "idle" /\ ret[t].op = "end"
        /\ iter[Second(t)].list /\ iter[Second(t)].snapshot > 0
        /\ active_snapshot[tls_thread_state[t]] = 0

RemovesInFlight ==
    {t \in Threads : pc[t] \in {"rm_head", "rm_hp", "rm_check", "rm_scan", "rm_restart",
                                 "rm_cmp", "rm_rel_ok", "rm_rel_next"}}

\* C39: the commit counter is 1 plus the number of inserts that drew a
\* transaction id (each of them succeeds) plus the number of ll_remove calls
\* that passed the checks, whether they return LL_OK or LL_ERR_NOTFOUND;
\* ll_remove_first, the iterator, the queries and ll_reclaim leave it alone.
C39_CommitAccounting ==
    commit_id = 1 + Cardinality(Allocated) + rm_rets + Cardinality(RemovesInFlight)

\* Removes have returned LL_OK and LL_ERR_NOTFOUND, and ll_remove_first and
\* ll_reclaim have run, with all threads at rest.
C39_Witness ==
    /\ \A t \in Threads : pc[t] = "idle"
    /\ rm_rets >= 2
    /\ \E n \in Nodes : rm_stores[n] = 1
    /\ rm_rets > Cardinality({n \in Nodes : rm_stores[n] > 0})
    /\ \E t \in Threads : ret[t].op \in {"remove_first", "reclaim"}

\* C40: when the last call a thread made was an ll_iterator_next that returned
\* NULL on its open iterator, a further ll_iterator_next on that iterator
\* returns NULL as well.
C40_EndIsSticky ==
    [][\A t \in Threads :
          (/\ ret[t].op = "next" /\ ret[t].code = "NULL"
           /\ iter[t].list
           /\ ret'[t].op = "next")
              => ret'[t].code = "NULL"]_vars

====
